---- MODULE Spec2Model ----
(***************************************************************************)
(* Model of arrow-db-core: the columnar mutation kernel of a table         *)
(* (column.rs, row.rs), the table registry of a database (database.rs) and  *)
(* the DML path of Database::query (sql/).                                 *)
(*                                                                         *)
(* An Arrow array is modelled at buffer level: a data type tag, a length,  *)
(* the raw buffers (sequences of bytes / offsets) and the validity        *)
(* information.  All buffers start at offset 0, as they do for arrays      *)
(* built by the typed from-vector constructors and by the kernel itself.   *)
(***************************************************************************)
EXTENDS Integers, Sequences, FiniteSets, TLC

\* ------------------------------------------------------------------ bounds
\* rows of a table
MaxLen == 2
\* characters of a text and of a LIKE pattern
MaxChars == 3
\* nodes of a logical plan above its leaf
MaxDepth == 3
\* page numbers, page sizes and rows in a page
MaxPage == 3

\* ------------------------------------------------------- data types, values
\* Int32 is the representative of the types with a primitive byte width,
\* Boolean is bit-packed, Utf8 is variable width (offsets + values).
DataTypes == {"Int32", "Boolean", "Utf8"}

\* the types of the columns a typed table is built from: those above and the
\* eight-byte types Int64 and Float64
ColumnTypes == DataTypes \cup {"Int64", "Float64"}

\* arrow_schema::DataType::primitive_width; 0 stands for None
primitive_width(dt) ==
    IF dt = "Int32" THEN 4
    ELSE IF dt \in {"Int64", "Float64"} THEN 8
    ELSE 0

\* number of buffers of the array layout of a type
layout_buffers(dt) ==
    IF dt = "Utf8" THEN 2 ELSE 1

\* The non-null values an element of each type is drawn from.  Integers are
\* i32 or i64 values, Booleans are 0/1, strings are sequences of UTF-8 bytes
\* ("" and "a"), and a Float64 is counted in units of f64::EPSILON (0 is 0.0,
\* 1 is 2^-52).  Each set holds the default value of its type.
TypeValues(dt) ==
    IF dt = "Utf8" THEN {<<>>, <<97>>} ELSE {0, 1}

\* the value a typed constructor stores in the slot of a None element
DefaultValue(dt) ==
    IF dt = "Utf8" THEN <<>> ELSE 0

\* An element as given to a from-vector constructor: Option<value>.
Some(v) == [null |-> FALSE, v |-> v]
None(dt) == [null |-> TRUE, v |-> DefaultValue(dt)]
Elems(dt) == {Some(v) : v \in TypeValues(dt)} \cup {None(dt)}

\* ------------------------------------------------------------- sequences
RECURSIVE Flatten(_)
Flatten(ss) ==
    IF ss = <<>> THEN <<>> ELSE Head(ss) \o Flatten(Tail(ss))

\* slice[from..] of a byte slice, 0-based start
SliceFrom(s, from) == SubSeq(s, from + 1, Len(s))
\* slice[..to] of a byte slice, 0-based exclusive end
SliceTo(s, to) == SubSeq(s, 1, to)

\* list splice helpers used to state the expected results
ListInsert(s, i, d) == SubSeq(s, 1, i) \o d \o SubSeq(s, i + 1, Len(s))
ListRemove(s, i) == SubSeq(s, 1, i) \o SubSeq(s, i + 2, Len(s))
ListUpdate(s, i, e) == [k \in 1..Len(s) |-> IF k = i + 1 THEN e ELSE s[k]]

\* ----------------------------------------------------- encodings of values
\* to_le_bytes for the value range of the model, whose values fit the low
\* four bytes of the slot
ToLeBytes(v, w) ==
    [k \in 1..w |-> IF k > 4 THEN 0 ELSE (v \div (256 ^ (k - 1))) % 256]

RECURSIVE FromLeBytes(_)
FromLeBytes(bs) ==
    IF bs = <<>> THEN 0 ELSE Head(bs) + 256 * FromLeBytes(Tail(bs))

\* bit-packed Boolean buffer: bit i (0-based) lives in byte i / 8
PackBits(bits) ==
    [b \in 1..((Len(bits) + 7) \div 8) |->
        LET lo == 8 * (b - 1) + 1
            hi == IF 8 * b < Len(bits) THEN 8 * b ELSE Len(bits)
            F[k \in (lo - 1)..hi] ==
                IF k = lo - 1 THEN 0 ELSE F[k - 1] + bits[k] * (2 ^ (k - lo))
        IN F[hi]]

GetBit(bytes, i) ==
    IF (i \div 8) + 1 > Len(bytes) THEN 0
    ELSE (bytes[(i \div 8) + 1] \div (2 ^ (i % 8))) % 2

\* Utf8 offsets buffer for a list of strings
Offsets(strs) ==
    LET F[k \in 0..Len(strs)] == IF k = 0 THEN 0 ELSE F[k - 1] + Len(strs[k])
    IN [k \in 1..(Len(strs) + 1) |-> F[k - 1]]

\* ------------------------------------------------------------ array model
\* nulls = <<>> models a missing null buffer; otherwise nulls[i] is TRUE when
\* element i is null (ArrayData::build drops a null buffer with no nulls).
\* an array of type dt with the given raw slot values and null flags
MakeArray(dt, raw, nullflags) ==
    [dt |-> dt,
     len |-> Len(raw),
     buffers |->
        IF dt = "Utf8" THEN <<Offsets(raw), Flatten(raw)>>
        ELSE IF dt = "Boolean" THEN <<PackBits(raw)>>
        ELSE <<Flatten([k \in 1..Len(raw) |-> ToLeBytes(raw[k], primitive_width(dt))])>>,
     nulls |-> IF \E k \in 1..Len(nullflags) : nullflags[k] THEN nullflags ELSE <<>>]

\* Int32Array / BooleanArray / StringArray ::from(Vec<Option<_>>)
ArrayFrom(dt, es) ==
    MakeArray(dt, [k \in 1..Len(es) |-> es[k].v], [k \in 1..Len(es) |-> es[k].null])

\* Array::is_null(i), 0-based
is_null(a, i) == a.nulls # <<>> /\ i + 1 <= Len(a.nulls) /\ a.nulls[i + 1]

\* Array::value(i), 0-based, read from the raw buffers whatever the validity
value(a, i) ==
    IF a.dt = "Utf8" THEN
        SubSeq(a.buffers[2], a.buffers[1][i + 1] + 1, a.buffers[1][i + 2])
    ELSE IF a.dt = "Boolean" THEN GetBit(a.buffers[1], i)
    ELSE FromLeBytes(SubSeq(a.buffers[1], i * primitive_width(a.dt) + 1,
                            (i + 1) * primitive_width(a.dt)))

\* the logical content of an array: its elements as Option<value>
Elements(a) ==
    [k \in 1..a.len |->
        IF is_null(a, k - 1) THEN None(a.dt) ELSE Some(value(a, k - 1))]

\* ArrayData::validate as reached from ArrayDataBuilder::build
validate(a) ==
    /\ Len(a.buffers) = layout_buffers(a.dt)
    /\ primitive_width(a.dt) > 0 =>
          Len(a.buffers[1]) >= a.len * primitive_width(a.dt)
    /\ a.dt = "Boolean" => Len(a.buffers[1]) >= (a.len + 7) \div 8
    /\ a.dt = "Utf8" =>
          \/ a.len = 0
          \/ /\ Len(a.buffers[1]) >= a.len + 1
             /\ a.buffers[1][a.len + 1] <= Len(a.buffers[2])
    /\ a.nulls # <<>> => Len(a.nulls) = a.len

\* The arrays a caller hands to the kernel hold no, one or several elements.
DataLens == {0, 1, 2}
SeqsOfLens(S) == UNION {[1..k -> S] : k \in DataLens}

\* arrays that may hold nulls: the content of a new column or of a row cell
NullableData(dt) == {ArrayFrom(dt, es) : es \in SeqsOfLens(Elems(dt))}
\* arrays without nulls: the data of a column operation, which reads only the
\* length and the value buffers of its data, never its validity
ValidData(dt) ==
    {ArrayFrom(dt, es) : es \in SeqsOfLens({Some(v) : v \in TypeValues(dt)})}
\* single-element arrays, as built for one cell of a row
CellsOf(dt) == {ArrayFrom(dt, <<e>>) : e \in Elems(dt)}

\* ------------------------------------------------------------ table model
\* A table is its record batch: the schema fields, the columns and the row
\* count the batch was built with.
Field(name, dt) == [name |-> name, dt |-> dt]

\* Table::new: an empty batch (empty schema, zero columns, zero rows)
NewTable == [fields |-> <<>>, columns |-> <<>>, num_rows |-> 0]

Res(outcome, t) == [outcome |-> outcome, table |-> t]

\* new_record_batch without the check that the columns have one length
new_record_batch_any_length(schema, columns) ==
    IF /\ Len(schema) = Len(columns)
       /\ Len(columns) > 0
       /\ \A c \in 1..Len(columns) : columns[c].dt = schema[c].dt
    THEN [ok |-> TRUE,
          batch |-> [fields |-> schema, columns |-> columns,
                     num_rows |-> columns[1].len]]
    ELSE [ok |-> FALSE, batch |-> [fields |-> <<>>, columns |-> <<>>, num_rows |-> 0]]

\* RecordBatch::try_new behind Table::new_record_batch: the number of columns
\* matches the schema, there is a first column to take the row count from,
\* every column has that length and the type of its field.
new_record_batch(schema, columns) ==
    IF /\ Len(schema) = Len(columns)
       /\ Len(columns) > 0
       /\ \A c \in 1..Len(columns) : columns[c].len = columns[1].len
       /\ \A c \in 1..Len(columns) : columns[c].dt = schema[c].dt
    THEN [ok |-> TRUE,
          batch |-> [fields |-> schema, columns |-> columns,
                     num_rows |-> columns[1].len]]
    ELSE [ok |-> FALSE, batch |-> NewTable]

\* Table::column_index_in_bounds
column_index_in_bounds(t, column_index) == ~(column_index > Len(t.fields))

\* replace_column_data that puts the column into the table before the batch
\* is checked
replace_column_data_unchecked(t, column_index, data) ==
    IF column_index >= Len(t.columns) THEN Res("panic", t)
    ELSE LET columns == [t.columns EXCEPT ![column_index + 1] = data]
             rb == new_record_batch(t.fields, columns)
         IN IF rb.ok THEN Res("Ok", rb.batch)
            ELSE Res("CreateRecordBatch", [t EXCEPT !.columns = columns])

\* Table::replace_column_data; indexing the columns vector out of range panics
replace_column_data(t, column_index, data) ==
    IF column_index >= Len(t.columns) THEN Res("panic", t)
    ELSE LET columns == [t.columns EXCEPT ![column_index + 1] = data]
             rb == new_record_batch(t.fields, columns)
         IN IF rb.ok THEN Res("Ok", rb.batch) ELSE Res("CreateRecordBatch", t)

\* Table::add_column
add_column(t, column_index, name, data_type, data) ==
    IF ~column_index_in_bounds(t, column_index)
    THEN Res("ColumnIndexOutOfBounds", t)
    ELSE LET fields == ListInsert(t.fields, column_index, <<Field(name, data_type)>>)
             columns == Append(t.columns, data)
             rb == new_record_batch(fields, columns)
         IN IF rb.ok THEN Res("Ok", rb.batch) ELSE Res("CreateRecordBatch", t)

\* SetKind: InsertAt(data), Update(data), Remove
SetKind(kind, data) == [kind |-> kind, data |-> data]
NoData == MakeArray("Int32", <<>>, <<>>)

\* Table::set_column_data.  overflow_checks tells whether the build panics on
\* the usize underflow of column_len - 1 (debug) or wraps (release); only a
\* Remove reads it.
set_column_data(t, column_index, row_index, set_kind, overflow_checks) ==
    IF column_index >= Len(t.columns) THEN Res("panic", t)
    ELSE
    LET column == t.columns[column_index + 1]
        column_len == column.len
        data == set_kind.data
        has_data == set_kind.kind # "Remove"
        \* a wrapped column_len - 1 is 2^64 - 1; it is written -1 here and is
        \* never read, the empty buffer list is rejected by validate first
        new_len == IF set_kind.kind = "InsertAt" THEN column_len + data.len
                   ELSE IF set_kind.kind = "Update" THEN column_len
                   ELSE column_len - 1
        width == primitive_width(column.dt)
        column_buffer == column.buffers[1]
        adjusted_index == row_index * width
        head == SliceTo(column_buffer, adjusted_index)
        tail == SliceFrom(column_buffer, adjusted_index)
    IN
    IF set_kind.kind = "Remove" /\ column_len = 0 /\ overflow_checks
    THEN Res("panic", t)
    ELSE IF column_len # 0 /\ width = 0 THEN Res("DataType", t)
    ELSE IF column_len # 0 /\ adjusted_index > Len(column_buffer)
    THEN Res("panic", t)
    ELSE IF column_len # 0 /\ set_kind.kind # "InsertAt" /\ width > Len(tail)
    THEN Res("panic", t)
    ELSE
    LET end == IF set_kind.kind = "InsertAt" THEN tail ELSE SliceFrom(tail, width)
        buffers ==
            IF column_len = 0
            THEN (IF has_data THEN data.buffers ELSE <<>>)
            ELSE <<head \o (IF has_data THEN data.buffers[1] ELSE <<>>) \o end>>
        array_data == [dt |-> column.dt, len |-> new_len,
                       buffers |-> buffers, nulls |-> column.nulls]
    IN IF ~validate(array_data) THEN Res("ArrayData", t)
       ELSE replace_column_data(t, column_index, array_data)

\* Table::insert_column_data
insert_column_data(t, column_index, row_index, data) ==
    set_column_data(t, column_index, row_index, SetKind("InsertAt", data), TRUE)

\* Table::append_column_data; RecordBatch::column panics out of range
append_column_data(t, column_index, data) ==
    IF column_index >= Len(t.columns) THEN Res("panic", t)
    ELSE insert_column_data(t, column_index, t.columns[column_index + 1].len,
                            data)

\* Table::update_string_column_data
update_string_column_data(t, column_index, row_index, new_data) ==
    LET existing_array == t.columns[column_index + 1]
    IN IF new_data.len # 1 THEN Res("DataType", t)
       ELSE LET new_value == value(new_data, 0)
                values == [k \in 1..existing_array.len |->
                              IF k - 1 = row_index THEN Some(new_value)
                              ELSE Some(value(existing_array, k - 1))]
            IN replace_column_data(t, column_index, ArrayFrom("Utf8", values))

\* Table::update_column_data
update_column_data(t, column_index, row_index, data) ==
    IF column_index >= Len(t.columns) THEN Res("panic", t)
    ELSE IF t.columns[column_index + 1].dt = "Utf8"
    THEN update_string_column_data(t, column_index, row_index, data)
    ELSE set_column_data(t, column_index, row_index, SetKind("Update", data),
                         TRUE)

\* Table::remove_column_data
remove_column_data(t, column_index, row_index, overflow_checks) ==
    set_column_data(t, column_index, row_index, SetKind("Remove", NoData),
                    overflow_checks)

\* arrow::compute::concat of two arrays: fails on different data types,
\* otherwise copies the slots and validity of both
concat(a, b) ==
    IF a.dt # b.dt THEN [ok |-> FALSE, array |-> a]
    ELSE [ok |-> TRUE,
          array |-> MakeArray(a.dt,
                      [k \in 1..(a.len + b.len) |->
                          IF k <= a.len THEN value(a, k - 1)
                          ELSE value(b, k - a.len - 1)],
                      [k \in 1..(a.len + b.len) |->
                          IF k <= a.len THEN is_null(a, k - 1)
                          ELSE is_null(b, k - a.len - 1)])]

\* append_row that puts the new cell in front of the existing column
append_row_in_front(t, row_data) ==
    IF Len(row_data) # Len(t.columns) THEN Res("CreateRecordBatch", t)
    ELSE LET cc == [c \in 1..Len(row_data) |-> concat(row_data[c], t.columns[c])]
         IN IF \E c \in 1..Len(row_data) : ~cc[c].ok
            THEN Res("CreateRecordBatch", t)
            ELSE LET rb == new_record_batch(t.fields,
                                [c \in 1..Len(row_data) |-> cc[c].array])
                 IN IF rb.ok THEN Res("Ok", rb.batch)
                    ELSE Res("CreateRecordBatch", t)

\* Table::append_row
append_row(t, row_data) ==
    IF Len(row_data) # Len(t.columns) THEN Res("CreateRecordBatch", t)
    ELSE LET cc == [c \in 1..Len(row_data) |-> concat(t.columns[c], row_data[c])]
         IN IF \E c \in 1..Len(row_data) : ~cc[c].ok
            THEN Res("CreateRecordBatch", t)
            ELSE LET rb == new_record_batch(t.fields,
                                [c \in 1..Len(row_data) |-> cc[c].array])
                 IN IF rb.ok THEN Res("Ok", rb.batch)
                    ELSE Res("CreateRecordBatch", t)

\* the data types Table::delete_row has a match arm for
delete_row_types == {"Int32", "Float32", "Float64", "Boolean", "Date32", "Utf8"}

\* Table::delete_row
delete_row(t, row_idx) ==
    IF row_idx >= t.num_rows THEN Res("Query", t)
    ELSE IF \E c \in 1..Len(t.columns) : t.columns[c].dt \notin delete_row_types
    THEN Res("Query", t)
    ELSE LET new_columns ==
                [c \in 1..Len(t.columns) |->
                    ArrayFrom(t.columns[c].dt,
                              ListRemove(Elements(t.columns[c]), row_idx))]
             rb == new_record_batch(t.fields, new_columns)
         IN IF rb.ok THEN Res("Ok", rb.batch) ELSE Res("CreateRecordBatch", t)

\* ---------------------------------------------------------- the database
\* A database is its table collection, keyed by table name, and the engine
\* context, which holds for each registered name the batch as it was when
\* the name was registered.
TableNames == {"users"}

Put(f, k, v) == [n \in DOMAIN f \cup {k} |-> IF n = k THEN v ELSE f[n]]
Drop(f, k) == [n \in DOMAIN f \ {k} |-> f[n]]

DbRes(outcome, db) == [outcome |-> outcome, db |-> db]

\* Database::add_table
add_table(db, name, t) ==
    IF name \in DOMAIN db.tables THEN DbRes("TableAlreadyExists", db)
    ELSE DbRes("Ok", [db EXCEPT !.tables = Put(db.tables, name, t)])

\* Database::remove_table without the deregistration from the engine
remove_table_keeping_context(db, name) ==
    IF name \notin DOMAIN db.tables THEN DbRes("TableNotFound", db)
    ELSE DbRes("Ok", [db EXCEPT !.tables = Drop(db.tables, name)])

\* Database::remove_table
remove_table(db, name) ==
    LET deregistered == [db EXCEPT !.ctx = Drop(db.ctx, name)]
    IN IF name \notin DOMAIN db.tables THEN DbRes("TableNotFound", deregistered)
       ELSE DbRes("Ok", [deregistered EXCEPT !.tables = Drop(db.tables, name)])

\* SessionContext::deregister_table: whatever is registered under the name
\* is dropped
deregister_table(context, name) == Drop(context, name)

\* SessionContext::register_table: the engine refuses a name it holds
register_table(context, name, provider) ==
    IF name \in DOMAIN context THEN [ok |-> FALSE, ctx |-> context]
    ELSE [ok |-> TRUE, ctx |-> Put(context, name, provider)]

\* the registration of Database::add_table_context: ok or the Query error
context_result(db, registration) ==
    DbRes(IF registration.ok THEN "Ok" ELSE "Query",
          [db EXCEPT !.ctx = registration.ctx])

\* Database::add_table_context registering without deregistering first
add_table_context_without_deregister(db, table_name) ==
    IF table_name \notin DOMAIN db.tables THEN DbRes("TableNotFound", db)
    ELSE context_result(db, register_table(db.ctx, table_name,
                                           db.tables[table_name]))

\* Database::add_table_context; the provider is a MemTable holding a copy of
\* the table's batch
add_table_context(db, table_name) ==
    IF table_name \notin DOMAIN db.tables THEN DbRes("TableNotFound", db)
    ELSE context_result(db, register_table(
                                deregister_table(db.ctx, table_name),
                                table_name, db.tables[table_name]))

\* Database::add_all_table_contexts
add_all_table_contexts(db) ==
    DbRes("Ok", [db EXCEPT !.ctx =
        [n \in DOMAIN db.ctx \cup DOMAIN db.tables |->
            IF n \in DOMAIN db.tables THEN db.tables[n] ELSE db.ctx[n]]])

\* ------------------------------------------------------ literals and plans
\* datafusion ScalarValue: a type tag and an Option<value>.  The value of an
\* Int32 or a Boolean is in int, that of a Utf8 in str, and an Int64 is held
\* as its two 32-bit words, hi * 2^32 + int.
Scalar(type, some, hi, int, str) ==
    [type |-> type, some |-> some, hi |-> hi, int |-> int, str |-> str]
Int32Scalar(v) == Scalar("Int32", TRUE, 0, v, <<>>)
Int64Scalar(hi, lo) == Scalar("Int64", TRUE, hi, lo, <<>>)
BooleanScalar(v) == Scalar("Boolean", TRUE, 0, v, <<>>)
Utf8Scalar(v) == Scalar("Utf8", TRUE, 0, 0, v)
ScalarNone(type) == Scalar(type, FALSE, 0, 0, <<>>)

\* `val as i32` on an i64 literal: the low 32 bits
AsI32(scalar) == scalar.int

\* a column value widened or kept for the comparison with a literal: an i32
\* `as i64` against an Int64 literal has a zero high word
ColumnScalar(type, v) ==
    IF type = "Utf8" THEN Utf8Scalar(v) ELSE Scalar(type, TRUE, 0, v, <<>>)

\* Database::scalar_to_array_ref
scalar_to_array_ref(scalar) ==
    IF ~scalar.some THEN [ok |-> FALSE, array |-> NoData]
    ELSE IF scalar.type = "Int32"
    THEN [ok |-> TRUE, array |-> ArrayFrom("Int32", <<Some(scalar.int)>>)]
    ELSE IF scalar.type = "Int64"
    THEN [ok |-> TRUE, array |-> ArrayFrom("Int32", <<Some(AsI32(scalar))>>)]
    ELSE IF scalar.type = "Boolean"
    THEN [ok |-> TRUE, array |-> ArrayFrom("Boolean", <<Some(scalar.int)>>)]
    ELSE IF scalar.type = "Utf8"
    THEN [ok |-> TRUE, array |-> ArrayFrom("Utf8", <<Some(scalar.str)>>)]
    ELSE [ok |-> FALSE, array |-> NoData]

\* Schema::column_with_name: the 0-based index of the first field of that
\* name, -1 for None
column_with_name(schema, name) ==
    LET I == {c \in 1..Len(schema) : schema[c].name = name}
    IN IF I = {} THEN -1 ELSE (CHOOSE c \in I : \A d \in I : c <= d) - 1

\* the order of two byte strings (str::cmp)
RECURSIVE StrLess(_, _)
StrLess(x, y) ==
    IF y = <<>> THEN FALSE
    ELSE IF x = <<>> THEN TRUE
    ELSE IF Head(x) # Head(y) THEN Head(x) < Head(y)
    ELSE StrLess(Tail(x), Tail(y))

\* the order of two literals of one type (PartialOrd of i32, i64, bool, &str)
ScalarLess(x, y) ==
    IF x.type = "Utf8" THEN StrLess(x.str, y.str)
    ELSE x.hi < y.hi \/ (x.hi = y.hi /\ x.int < y.int)

\* Database::compare_values
compare_values(actual, expected, operator) ==
    IF operator = "Eq" THEN actual = expected
    ELSE IF operator = "NotEq" THEN actual # expected
    ELSE IF operator = "Lt" THEN ScalarLess(actual, expected)
    ELSE IF operator = "LtEq" THEN ~ScalarLess(expected, actual)
    ELSE IF operator = "Gt" THEN ScalarLess(expected, actual)
    ELSE IF operator = "GtEq" THEN ~ScalarLess(actual, expected)
    ELSE FALSE

\* f64::EPSILON * 1000.0, in units of f64::EPSILON
epsilon == 1000

Abs(x) == IF x < 0 THEN -x ELSE x

\* Database::compare_float_values, on floats counted in units of f64::EPSILON
compare_float_values(actual, expected, operator) ==
    IF operator = "Eq" THEN Abs(actual - expected) < epsilon
    ELSE IF operator = "NotEq" THEN Abs(actual - expected) >= epsilon
    ELSE IF operator = "Lt" THEN actual < expected - epsilon
    ELSE IF operator = "LtEq" THEN actual <= expected + epsilon
    ELSE IF operator = "Gt" THEN actual > expected + epsilon
    ELSE IF operator = "GtEq" THEN actual >= expected - epsilon
    ELSE FALSE

Float64Scalar(v) == Scalar("Float64", TRUE, 0, v, <<>>)

\* Database::check_column_comparison.  The match is on the type of the
\* literal, and each arm downcasts the column to one array type (an Int64
\* literal to Int32Array); a column of another type leaves the arm without a
\* result.
check_column_comparison(t, column_name, row_idx, expected_value, operator) ==
    LET column_index == column_with_name(t.fields, column_name)
        column == t.columns[column_index + 1]
        literal_fits ==
            /\ expected_value.some
            /\ \/ expected_value.type \in {"Int32", "Int64"} /\ column.dt = "Int32"
               \/ expected_value.type = "Float64" /\ column.dt = "Float64"
               \/ expected_value.type = "Boolean" /\ column.dt = "Boolean"
               \/ expected_value.type = "Utf8" /\ column.dt = "Utf8"
    IN IF column_index < 0 THEN [ok |-> FALSE, result |-> FALSE]
       ELSE IF literal_fits /\ row_idx < column.len /\ ~is_null(column, row_idx)
       THEN [ok |-> TRUE,
             result |->
                IF expected_value.type = "Float64"
                THEN compare_float_values(value(column, row_idx),
                                          expected_value.int, operator)
                ELSE compare_values(
                         ColumnScalar(expected_value.type, value(column, row_idx)),
                         expected_value, operator)]
       ELSE [ok |-> TRUE, result |-> FALSE]

\* Database::get_column_value: ok is FALSE for an unknown column; the value
\* is a literal without a value (None) for a row out of range, a null or a
\* column type without an arm
get_column_value(t, column_name, row_idx) ==
    LET column_index == column_with_name(t.fields, column_name)
        column == t.columns[column_index + 1]
    IN IF column_index < 0 THEN [ok |-> FALSE, value |-> ScalarNone("Null")]
       ELSE IF row_idx >= column.len \/ is_null(column, row_idx)
       THEN [ok |-> TRUE, value |-> ScalarNone("Null")]
       ELSE IF column.dt \in {"Int32", "Float64", "Boolean", "Utf8"}
       THEN [ok |-> TRUE, value |-> ColumnScalar(column.dt, value(column, row_idx))]
       ELSE [ok |-> TRUE, value |-> ScalarNone("Null")]

\* Database::scalar_values_equal; the difference of two Float64 is compared
\* with f64::EPSILON, one unit
scalar_values_equal(a, b) ==
    /\ a.some
    /\ b.some
    /\ \/ a.type = "Int32" /\ b.type = "Int32" /\ a.int = b.int
       \/ a.type = "Int32" /\ b.type = "Int64" /\ b.hi = 0 /\ a.int = b.int
       \/ a.type = "Float64" /\ b.type = "Float64" /\ Abs(a.int - b.int) < 1
       \/ a.type = "Boolean" /\ b.type = "Boolean" /\ a.int = b.int
       \/ a.type = "Utf8" /\ b.type = "Utf8" /\ a.str = b.str

\* Database::is_column_null
is_column_null(t, column_name, row_idx) ==
    LET column_index == column_with_name(t.fields, column_name)
        column == t.columns[column_index + 1]
    IN IF column_index < 0 THEN [ok |-> FALSE, result |-> FALSE]
       ELSE IF row_idx >= column.len THEN [ok |-> TRUE, result |-> TRUE]
       ELSE [ok |-> TRUE, result |-> is_null(column, row_idx)]

\* the characters '%' and '_' of a LIKE pattern
Percent == 37
Underscore == 95

\* simple_like_match with a '%' that matches one or more characters
RECURSIVE simple_like_match_one_or_more(_, _, _, _)
simple_like_match_one_or_more(text, pattern, text_idx, pattern_idx) ==
    IF pattern_idx >= Len(pattern) THEN text_idx >= Len(text)
    ELSE IF text_idx >= Len(text)
    THEN \A k \in (pattern_idx + 1)..Len(pattern) : pattern[k] = Percent
    ELSE IF pattern[pattern_idx + 1] = Percent
    THEN \/ simple_like_match_one_or_more(text, pattern, text_idx + 1,
                                          pattern_idx + 1)
         \/ simple_like_match_one_or_more(text, pattern, text_idx + 1,
                                          pattern_idx)
    ELSE IF pattern[pattern_idx + 1] = Underscore
    THEN simple_like_match_one_or_more(text, pattern, text_idx + 1,
                                       pattern_idx + 1)
    ELSE IF text[text_idx + 1] = pattern[pattern_idx + 1]
    THEN simple_like_match_one_or_more(text, pattern, text_idx + 1,
                                       pattern_idx + 1)
    ELSE FALSE

\* Database::simple_like_match, on the characters of text and pattern
RECURSIVE simple_like_match(_, _, _, _)
simple_like_match(text, pattern, text_idx, pattern_idx) ==
    IF pattern_idx >= Len(pattern) THEN text_idx >= Len(text)
    ELSE IF text_idx >= Len(text)
    THEN \A k \in (pattern_idx + 1)..Len(pattern) : pattern[k] = Percent
    ELSE IF pattern[pattern_idx + 1] = Percent
    THEN \/ simple_like_match(text, pattern, text_idx, pattern_idx + 1)
         \/ simple_like_match(text, pattern, text_idx + 1, pattern_idx)
    ELSE IF pattern[pattern_idx + 1] = Underscore
    THEN simple_like_match(text, pattern, text_idx + 1, pattern_idx + 1)
    ELSE IF text[text_idx + 1] = pattern[pattern_idx + 1]
    THEN simple_like_match(text, pattern, text_idx + 1, pattern_idx + 1)
    ELSE FALSE

\* Database::matches_like_pattern
matches_like_pattern(text, pattern) == simple_like_match(text, pattern, 0, 0)

\* A WHERE condition as Database::extract_where_condition hands it over:
\* none, or an expression over a column reference: a comparison with a
\* literal, [NOT] IN a list of literals, [NOT] LIKE a literal pattern,
\* IS [NOT] NULL, and the AND / OR of two conditions (in args).
Condition(kind, column, operator, literal, list, negated, args) ==
    [kind |-> kind, column |-> column, operator |-> operator, value |-> literal,
     list |-> list, negated |-> negated, args |-> args]
NoWhere ==
    Condition("None", "", "", ScalarNone("Null"), <<>>, FALSE, <<>>)
Comparison(column, operator, literal) ==
    Condition("BinaryExpr", column, operator, literal, <<>>, FALSE, <<>>)
Logical(operator, left, right) ==
    Condition("BinaryExpr", "", operator, ScalarNone("Null"), <<>>, FALSE,
              <<left, right>>)
InList(column, list, negated) ==
    Condition("InList", column, "", ScalarNone("Null"), list, negated, <<>>)
Like(column, pattern, negated) ==
    Condition("Like", column, "", pattern, <<>>, negated, <<>>)
IsNull(column) ==
    Condition("IsNull", column, "", ScalarNone("Null"), <<>>, FALSE, <<>>)
IsNotNull(column) ==
    Condition("IsNotNull", column, "", ScalarNone("Null"), <<>>, FALSE, <<>>)

ComparisonOperators == {"Eq", "NotEq", "Lt", "LtEq", "Gt", "GtEq"}

\* Database::evaluate_where_condition
RECURSIVE evaluate_where_condition(_, _, _)
evaluate_where_condition(t, condition, row_idx) ==
    IF condition.kind = "InList"
    THEN LET column_value == get_column_value(t, condition.column, row_idx)
             found == \E k \in 1..Len(condition.list) :
                          scalar_values_equal(column_value.value,
                                              condition.list[k])
         IN IF ~column_value.ok THEN [ok |-> FALSE, result |-> FALSE]
            ELSE [ok |-> TRUE,
                  result |-> IF condition.negated THEN ~found ELSE found]
    ELSE IF condition.kind = "Like"
    THEN IF condition.value.type = "Utf8" /\ condition.value.some
         THEN LET column_value == get_column_value(t, condition.column, row_idx)
                  matches == matches_like_pattern(column_value.value.str,
                                                  condition.value.str)
              IN IF ~column_value.ok THEN [ok |-> FALSE, result |-> FALSE]
                 ELSE IF column_value.value.some
                         /\ column_value.value.type = "Utf8"
                 THEN [ok |-> TRUE,
                       result |-> IF condition.negated THEN ~matches
                                  ELSE matches]
                 ELSE [ok |-> TRUE, result |-> FALSE]
         ELSE [ok |-> TRUE, result |-> FALSE]
    ELSE IF condition.kind = "IsNull"
    THEN is_column_null(t, condition.column, row_idx)
    ELSE IF condition.kind = "IsNotNull"
    THEN LET n == is_column_null(t, condition.column, row_idx)
         IN [ok |-> n.ok, result |-> n.ok /\ ~n.result]
    ELSE IF condition.kind = "BinaryExpr"
    THEN IF condition.operator \in ComparisonOperators
         THEN check_column_comparison(t, condition.column, row_idx,
                                      condition.value, condition.operator)
         ELSE IF condition.operator \in {"And", "Or"}
         THEN LET left_result ==
                      evaluate_where_condition(t, condition.args[1], row_idx)
                  right_result ==
                      evaluate_where_condition(t, condition.args[2], row_idx)
              IN IF ~left_result.ok \/ ~right_result.ok
                 THEN [ok |-> FALSE, result |-> FALSE]
                 ELSE [ok |-> TRUE,
                       result |->
                          IF condition.operator = "And"
                          THEN left_result.result /\ right_result.result
                          ELSE left_result.result \/ right_result.result]
         ELSE [ok |-> TRUE, result |-> FALSE]
    ELSE [ok |-> TRUE, result |-> FALSE]

\* the rows of a table a statement applies to (the loop over 0..num_rows of
\* execute_update and execute_delete), in ascending order; ok is FALSE when
\* the evaluation of the condition fails on some row
matching_rows(t, where_condition) ==
    LET should(row_idx) ==
            IF where_condition.kind = "None" THEN [ok |-> TRUE, result |-> TRUE]
            ELSE evaluate_where_condition(t, where_condition, row_idx)
        F[k \in 0..t.num_rows] ==
            IF k = 0 THEN <<>>
            ELSE IF should(k - 1).result THEN Append(F[k - 1], k - 1)
            ELSE F[k - 1]
    IN [ok |-> \A k \in 0..(t.num_rows - 1) : should(k).ok,
        rows |-> F[t.num_rows]]

\* ------------------------------------------------------- the DML executors
\* the table of that name, for an executor that returns before it reads it
TableOf(db, table_name) ==
    IF table_name \in DOMAIN db.tables THEN db.tables[table_name] ELSE NewTable

\* the outcome of an executor: the table as it leaves it and the row count
ExecRes(outcome, t, count) == [outcome |-> outcome, table |-> t, count |-> count]

\* InsertValue / SetAssignment: a column name with its literal
InsertValue(column, literal) == [column |-> column, value |-> literal]

\* row_values.iter().find(|v| v.column == *column_name): the position of the
\* first value for the column, 0 for None
find_value(row_values, column_name) ==
    LET I == {k \in 1..Len(row_values) : row_values[k].column = column_name}
    IN IF I = {} THEN 0 ELSE CHOOSE k \in I : \A j \in I : k <= j

\* the loop over the rows of Database::execute_insert
RECURSIVE insert_rows(_, _, _, _)
insert_rows(t, schema, rows, inserted_count) ==
    IF rows = <<>> THEN ExecRes("Ok", t, inserted_count)
    ELSE LET row_values == Head(rows)
             found == [c \in 1..Len(schema) |->
                          find_value(row_values, schema[c].name)]
             cells == [c \in 1..Len(schema) |->
                          IF found[c] = 0 THEN [ok |-> FALSE, array |-> NoData]
                          ELSE scalar_to_array_ref(row_values[found[c]].value)]
         IN IF \E c \in 1..Len(schema) : ~cells[c].ok
            THEN ExecRes("Query", t, inserted_count)
            ELSE LET r == append_row(t, [c \in 1..Len(schema) |-> cells[c].array])
                 IN IF r.outcome # "Ok" THEN ExecRes(r.outcome, t, inserted_count)
                    ELSE insert_rows(r.table, schema, Tail(rows),
                                     inserted_count + 1)

\* Database::execute_insert for INSERT ... VALUES; rows holds, per row of
\* the statement, the values parse_insert_plan kept (the literal ones), and
\* a row that kept no value is dropped
execute_insert(db, table_name, rows) ==
    LET kept == SelectSeq(rows, LAMBDA row : row # <<>>)
    IN IF kept = <<>> THEN ExecRes("Query", TableOf(db, table_name), 0)
       ELSE IF table_name \notin DOMAIN db.tables
       THEN ExecRes("TableNotFound", NewTable, 0)
       ELSE insert_rows(db.tables[table_name], db.tables[table_name].fields,
                        kept, 0)

\* Database::apply_set_assignment
apply_set_assignment(t, row_idx, assignment) ==
    LET column_index == column_with_name(t.fields, assignment.column)
        literal == assignment.value
    IN IF column_index < 0 THEN Res("Query", t)
       ELSE IF literal.some /\ literal.type \in {"Int32", "Boolean", "Utf8"}
       THEN update_column_data(t, column_index, row_idx,
                               ArrayFrom(literal.type,
                                   <<Some(IF literal.type = "Utf8"
                                          THEN literal.str ELSE literal.int)>>))
       ELSE Res("Query", t)

\* the two nested loops of Database::execute_update: every assignment on
\* every matching row, stopping at the first error
RECURSIVE apply_assignments(_, _, _, _, _)
apply_assignments(t, rows_to_update, set_assignments, k, updated_count) ==
    IF rows_to_update = <<>> THEN ExecRes("Ok", t, updated_count)
    ELSE IF k > Len(set_assignments)
    THEN apply_assignments(t, Tail(rows_to_update), set_assignments, 1,
                           updated_count + 1)
    ELSE LET r == apply_set_assignment(t, Head(rows_to_update),
                                       set_assignments[k])
         IN IF r.outcome # "Ok" THEN ExecRes(r.outcome, r.table, updated_count)
            ELSE apply_assignments(r.table, rows_to_update, set_assignments,
                                   k + 1, updated_count)

\* Database::execute_update
execute_update(db, table_name, set_assignments, where_condition) ==
    IF set_assignments = <<>> THEN ExecRes("Query", TableOf(db, table_name), 0)
    ELSE IF table_name \notin DOMAIN db.tables
    THEN ExecRes("TableNotFound", NewTable, 0)
    ELSE LET t == db.tables[table_name]
             matching == matching_rows(t, where_condition)
         IN IF ~matching.ok THEN ExecRes("Query", t, 0)
            ELSE apply_assignments(t, matching.rows, set_assignments, 1, 0)

\* Database::delete_row_from_table
delete_row_from_table(t, row_idx) ==
    IF row_idx >= t.num_rows THEN Res("Query", t)
    ELSE IF \E c \in 1..Len(t.columns) : t.columns[c].dt \notin delete_row_types
    THEN Res("Query", t)
    ELSE LET new_columns ==
                [c \in 1..Len(t.columns) |->
                    ArrayFrom(t.columns[c].dt,
                              ListRemove(Elements(t.columns[c]), row_idx))]
             rb == new_record_batch(t.fields, new_columns)
         IN IF rb.ok THEN Res("Ok", rb.batch) ELSE Res("CreateRecordBatch", t)

\* the loop over the matching rows taken first to last
RECURSIVE delete_rows_ascending(_, _, _)
delete_rows_ascending(t, rows_to_delete, deleted_count) ==
    IF rows_to_delete = <<>> THEN ExecRes("Ok", t, deleted_count)
    ELSE LET r == delete_row_from_table(t, Head(rows_to_delete))
         IN IF r.outcome # "Ok" THEN ExecRes(r.outcome, r.table, deleted_count)
            ELSE delete_rows_ascending(r.table, Tail(rows_to_delete),
                                       deleted_count + 1)

\* the loop of Database::execute_delete over the matching rows, last first
RECURSIVE delete_rows(_, _, _)
delete_rows(t, rows_to_delete, deleted_count) ==
    IF rows_to_delete = <<>> THEN ExecRes("Ok", t, deleted_count)
    ELSE LET r == delete_row_from_table(t, rows_to_delete[Len(rows_to_delete)])
         IN IF r.outcome # "Ok" THEN ExecRes(r.outcome, r.table, deleted_count)
            ELSE delete_rows(r.table,
                             SubSeq(rows_to_delete, 1, Len(rows_to_delete) - 1),
                             deleted_count + 1)

\* Database::execute_delete
execute_delete(db, table_name, where_condition) ==
    IF table_name \notin DOMAIN db.tables
    THEN ExecRes("TableNotFound", NewTable, 0)
    ELSE LET t == db.tables[table_name]
             matching == matching_rows(t, where_condition)
         IN IF ~matching.ok THEN ExecRes("Query", t, 0)
            ELSE delete_rows(t, matching.rows, 0)

\* The plan of the SELECT of an INSERT ... SELECT: the first column_count
\* columns of the source table.
SelectFrom(source, column_count) ==
    [source |-> source, column_count |-> column_count]

\* DataFrame::collect on that plan: the engine reads the batch the source
\* was registered with, before the executor appends anything
collect(db, query_plan) ==
    [columns |-> SubSeq(db.ctx[query_plan.source].columns, 1,
                        query_plan.column_count),
     num_rows |-> db.ctx[query_plan.source].num_rows]

\* Database::extract_single_value_from_column
extract_single_value_from_column(column, row_idx) ==
    IF row_idx >= column.len THEN [ok |-> FALSE, array |-> NoData]
    ELSE IF column.dt \in {"Int32", "Float64", "Utf8"}
    THEN [ok |-> TRUE,
          array |-> ArrayFrom(column.dt,
                              <<IF is_null(column, row_idx) THEN None(column.dt)
                                ELSE Some(value(column, row_idx))>>)]
    ELSE [ok |-> FALSE, array |-> NoData]

\* the loop over the rows of a batch of Database::execute_insert_from_select
RECURSIVE insert_batch_rows(_, _, _, _, _)
insert_batch_rows(t, target_schema, batch, row_idx, inserted_count) ==
    IF row_idx >= batch.num_rows THEN ExecRes("Ok", t, inserted_count)
    ELSE LET num_columns == Len(batch.columns)
             cells == [c \in 1..Len(target_schema) |->
                          IF c - 1 < num_columns
                          THEN extract_single_value_from_column(batch.columns[c],
                                                                row_idx)
                          ELSE [ok |-> FALSE, array |-> NoData]]
         IN IF \E c \in 1..Len(target_schema) : ~cells[c].ok
            THEN ExecRes("Query", t, inserted_count)
            ELSE LET r == append_row(t, [c \in 1..Len(target_schema) |->
                                            cells[c].array])
                 IN IF r.outcome # "Ok" THEN ExecRes(r.outcome, t, inserted_count)
                    ELSE insert_batch_rows(r.table, target_schema, batch,
                                           row_idx + 1, inserted_count + 1)

\* Database::execute_insert_from_select; the engine returns the rows of the
\* source in one batch
execute_insert_from_select(db, table_name, query_plan) ==
    IF query_plan.source \notin DOMAIN db.ctx
    THEN ExecRes("Query", TableOf(db, table_name), 0)
    ELSE IF table_name \notin DOMAIN db.tables
    THEN ExecRes("TableNotFound", NewTable, 0)
    ELSE insert_batch_rows(db.tables[table_name], db.tables[table_name].fields,
                           collect(db, query_plan), 0, 0)

\* a DML statement as the planner hands it to Database::query
InsertInto(table_name, rows) ==
    [op |-> "InsertInto", table_name |-> table_name, rows |-> rows,
     set_assignments |-> <<>>, where_condition |-> NoWhere]
Update(table_name, set_assignments, where_condition) ==
    [op |-> "Update", table_name |-> table_name, rows |-> <<>>,
     set_assignments |-> set_assignments, where_condition |-> where_condition]
Delete(table_name, where_condition) ==
    [op |-> "Delete", table_name |-> table_name, rows |-> <<>>,
     set_assignments |-> <<>>, where_condition |-> where_condition]
InsertSelect(table_name, query_plan) ==
    [op |-> "InsertSelect", table_name |-> table_name, rows |-> <<>>,
     set_assignments |-> <<>>, where_condition |-> NoWhere,
     from_query |-> query_plan]

\* Database::query on a DML statement.  The planner resolves the table in
\* the engine context and fails on a name that is not registered; the
\* executor works on the table collection; the table is registered again
\* after the executor has returned Ok.
\* the table collection once the executor has returned r: the executor
\* works on the table in place
written_back(db, stmt, r) ==
    IF stmt.table_name \in DOMAIN db.tables
    THEN [db EXCEPT !.tables[stmt.table_name] = r.table]
    ELSE db

\* the end of Database::query: an executor's error is returned as it is, and
\* after Ok the table is registered again
registered(db, stmt, r) ==
    IF r.outcome # "Ok" THEN DbRes(r.outcome, written_back(db, stmt, r))
    ELSE add_table_context(written_back(db, stmt, r), stmt.table_name)

query(db, stmt) ==
    IF stmt.table_name \notin DOMAIN db.ctx THEN DbRes("Query", db)
    ELSE registered(db, stmt,
             IF stmt.op = "Update"
             THEN execute_update(db, stmt.table_name, stmt.set_assignments,
                                 stmt.where_condition)
             ELSE IF stmt.op = "InsertInto"
             THEN execute_insert(db, stmt.table_name, stmt.rows)
             ELSE IF stmt.op = "InsertSelect"
             THEN execute_insert_from_select(db, stmt.table_name,
                                             stmt.from_query)
             ELSE execute_delete(db, stmt.table_name, stmt.where_condition))

\* ------------------------------------------------- the table under mutation
\* table is a table mutated through the kernel alone; tables and ctx are the
\* table collection and the engine context of a database; call is a call of
\* a function of the plan walker or of the evaluator: its arguments and,
\* once it has returned, its result; cloned is the database Clone::clone
\* returned, once it has been called
VARIABLES table, tables, ctx, call, cloned

vars == <<table, tables, ctx, call, cloned>>

\* no clone made
NoClone == [made |-> FALSE, tables |-> <<>>, ctx |-> <<>>]

\* no call under way
NoCall == [returned |-> FALSE]

\* column names are handed out in this order; a schema never repeats a name
\* and a table has at most as many columns as there are names
NamePool == <<"id", "name">>

\* the states explored: at most MaxLen rows, in raw buffers of at most
\* MaxLen slots
WithinBounds(t) ==
    /\ t.num_rows <= MaxLen
    /\ \A c \in 1..Len(t.columns) :
          Len(t.columns[c].buffers[1]) <=
              MaxLen * (IF primitive_width(t.columns[c].dt) > 4
                        THEN primitive_width(t.columns[c].dt)
                        ELSE primitive_width("Int32"))

\* a type other than dt, for the calls whose data does not fit the column
OtherType(dt) ==
    IF dt = "Int32" THEN "Utf8" ELSE IF dt = "Utf8" THEN "Boolean" ELSE "Int32"

\* Argument ranges.  Row indexes run to one past the longest column.  A
\* column call addresses a column of the table with data of its type, or the
\* column index one past the last column.
RowIndexes == 0..(MaxLen + 1)
ColumnCalls(t) ==
    {<<ci, ri, d>> : ci \in 0..(Len(t.columns) - 1), ri \in RowIndexes,
                     d \in ValidData("Int32") \cup ValidData("Boolean")
                           \cup ValidData("Utf8")}
ColumnArgs(t) ==
    {a \in ColumnCalls(t) : a[3].dt = t.columns[a[1] + 1].dt}
    \cup {<<Len(t.columns), 0, ArrayFrom("Int32", <<Some(1)>>)>>}

\* rows handed to append_row: one cell per column, each of the column's type
\* or a null of another type; and such a row one cell short or one cell long
TypedRows(t) ==
    {row \in [1..Len(t.columns) -> UNION {CellsOf(dt) : dt \in DataTypes}] :
        \A c \in 1..Len(t.columns) :
            \/ row[c].dt = t.columns[c].dt
            \/ row[c] = ArrayFrom(OtherType(t.columns[c].dt),
                                  <<None(OtherType(t.columns[c].dt))>>)}
WellTypedRow(t) ==
    [c \in 1..Len(t.columns) |->
        ArrayFrom(t.columns[c].dt, <<Some(DefaultValue(t.columns[c].dt))>>)]
RowsFor(t) ==
    TypedRows(t)
    \cup {Append(WellTypedRow(t), ArrayFrom("Int32", <<Some(1)>>))}
    \cup (IF Len(t.columns) = 0 THEN {}
          ELSE {SubSeq(WellTypedRow(t), 1, Len(t.columns) - 1)})

Init ==
    /\ table = NewTable
    /\ tables = <<>>
    /\ ctx = <<>>
    /\ call = NoCall
    /\ cloned = NoClone

AddColumn ==
    \E column_index \in 0..(Len(table.fields) + 1), dt \in DataTypes :
      \E data \in NullableData(dt), data_type \in {dt, OtherType(dt)} :
        /\ Len(table.fields) < Len(NamePool)
        /\ LET r == add_column(table, column_index,
                               NamePool[Len(table.fields) + 1], data_type, data)
           IN /\ WithinBounds(r.table)
           /\ table' = r.table
           /\ UNCHANGED <<tables, ctx, call, cloned>>

AppendColumnData ==
    \E a \in {x \in ColumnArgs(table) : x[2] = 0} :
        LET r == append_column_data(table, a[1], a[3])
        IN /\ WithinBounds(r.table)
           /\ table' = r.table
           /\ UNCHANGED <<tables, ctx, call, cloned>>

InsertColumnData ==
    \E a \in ColumnArgs(table) :
        LET r == insert_column_data(table, a[1], a[2], a[3])
        IN /\ WithinBounds(r.table)
           /\ table' = r.table
           /\ UNCHANGED <<tables, ctx, call, cloned>>

UpdateColumnData ==
    \E a \in ColumnArgs(table) :
        LET r == update_column_data(table, a[1], a[2], a[3])
        IN /\ WithinBounds(r.table)
           /\ table' = r.table
           /\ UNCHANGED <<tables, ctx, call, cloned>>

RemoveColumnData ==
    \E column_index \in 0..Len(table.columns), row_index \in RowIndexes,
       overflow_checks \in BOOLEAN :
        LET r == remove_column_data(table, column_index, row_index,
                                    overflow_checks)
        IN /\ WithinBounds(r.table)
           /\ table' = r.table
           /\ UNCHANGED <<tables, ctx, call, cloned>>

ReplaceColumnData ==
    \E column_index \in 0..Len(table.columns) :
      \E data \in NullableData(IF column_index < Len(table.columns)
                               THEN table.columns[column_index + 1].dt
                               ELSE "Int32")
                  \cup {ArrayFrom(OtherType("Int32"), <<>>)} :
        LET r == replace_column_data(table, column_index, data)
        IN /\ WithinBounds(r.table)
           /\ table' = r.table
           /\ UNCHANGED <<tables, ctx, call, cloned>>

AppendRow ==
    \E row_data \in RowsFor(table) :
        LET r == append_row(table, row_data)
        IN /\ WithinBounds(r.table)
           /\ table' = r.table
           /\ UNCHANGED <<tables, ctx, call, cloned>>

DeleteRow ==
    \E row_idx \in RowIndexes :
        LET r == delete_row(table, row_idx)
        IN /\ WithinBounds(r.table)
           /\ table' = r.table
           /\ UNCHANGED <<tables, ctx, call, cloned>>

Next ==
    \/ AddColumn
    \/ AppendColumnData
    \/ InsertColumnData
    \/ UpdateColumnData
    \/ RemoveColumnData
    \/ ReplaceColumnData
    \/ AppendRow
    \/ DeleteRow

Spec == Init /\ [][Next]_vars

\* ------------------------------------------------- the database in use
Db == [tables |-> tables, ctx |-> ctx]

DbWithinBounds(db) == \A n \in DOMAIN db.tables : WithinBounds(db.tables[n])

\* the literals a statement can hold for a column of a type: an integer
\* literal is an Int64, and a NULL is a ScalarValue without a value
InsertLiterals(dt) ==
    IF dt = "Int32"
    THEN {Int64Scalar(0, 1), Int64Scalar(1, 1), ScalarNone("Int64")}
    ELSE IF dt = "Boolean" THEN {BooleanScalar(1), ScalarNone("Boolean")}
    ELSE {Utf8Scalar(<<97>>), ScalarNone("Utf8")}
SetLiterals(dt) ==
    IF dt = "Int32" THEN {Int32Scalar(1), Int64Scalar(0, 1)}
    ELSE IF dt = "Boolean" THEN {BooleanScalar(1)}
    ELSE {Utf8Scalar(<<97>>)}
WhereLiterals(dt) ==
    IF dt = "Int32" THEN {Int64Scalar(0, 1)}
    ELSE IF dt = "Boolean" THEN {BooleanScalar(1)}
    ELSE {Utf8Scalar(<<97>>)}

\* the lists of column values a statement can give for a schema: for each
\* field, in schema order, one literal for the operation or none (an
\* expression that is not a literal is not kept by the plan walker)
RECURSIVE ValueLists(_, _)
ValueLists(schema, op) ==
    IF schema = <<>> THEN {<<>>}
    ELSE LET rest == ValueLists(Tail(schema), op)
             literals == IF op = "InsertInto" THEN InsertLiterals(Head(schema).dt)
                         ELSE SetLiterals(Head(schema).dt)
         IN rest \cup
            {<<InsertValue(Head(schema).name, l)>> \o r :
                l \in literals, r \in rest}

\* the WHERE conditions a statement can hold for a schema
Conditions(schema) ==
    {NoWhere} \cup
    UNION {{Comparison(schema[c].name, op, l) :
               op \in {"Eq", "NotEq"}, l \in WhereLiterals(schema[c].dt)} :
           c \in 1..Len(schema)}

\* the statements the planner accepts against the registered schema
InsertStatements(table_name, schema) ==
    {InsertInto(table_name, rows) :
        rows \in UNION {[1..k -> ValueLists(schema, "InsertInto")] : k \in 1..2}}
UpdateStatements(table_name, schema) ==
    {Update(table_name, a, w) :
        a \in ValueLists(schema, "Update"), w \in Conditions(schema)}
DeleteStatements(table_name, schema) ==
    {Delete(table_name, w) : w \in Conditions(schema)}
DmlStatements(table_name, schema) ==
    InsertStatements(table_name, schema)
    \cup UpdateStatements(table_name, schema)
    \cup DeleteStatements(table_name, schema)

\* a step of the database to db
DbStep(db) ==
    /\ DbWithinBounds(db)
    /\ tables' = db.tables
    /\ ctx' = db.ctx
    /\ UNCHANGED <<table, call, cloned>>

AddTable ==
    \E name \in TableNames :
        LET r == add_table(Db, name, NewTable) IN DbStep(r.db)

RemoveTable ==
    \E name \in TableNames :
        LET r == remove_table(Db, name) IN DbStep(r.db)

\* get_mut_table!(database, name) followed by add_column at the end of the
\* schema, as the seeding of a database does
SeedColumn ==
    \E name \in DOMAIN tables, dt \in DataTypes :
      \E data \in NullableData(dt) :
        /\ Len(tables[name].fields) < Len(NamePool)
        /\ LET r == add_column(tables[name], Len(tables[name].fields),
                               NamePool[Len(tables[name].fields) + 1], dt, data)
           IN DbStep([Db EXCEPT !.tables[name] = r.table])

AddAllTableContexts ==
    LET r == add_all_table_contexts(Db) IN DbStep(r.db)

QueryInsert ==
    \E name \in DOMAIN ctx :
      \E stmt \in InsertStatements(name, ctx[name].fields) :
        DbStep(query(Db, stmt).db)

QueryUpdate ==
    \E name \in DOMAIN ctx :
      \E stmt \in UpdateStatements(name, ctx[name].fields) :
        DbStep(query(Db, stmt).db)

QueryDelete ==
    \E name \in DOMAIN ctx :
      \E stmt \in DeleteStatements(name, ctx[name].fields) :
        DbStep(query(Db, stmt).db)

\* INSERT INTO name SELECT <the first columns> FROM source
QueryInsertSelect ==
    \E name \in DOMAIN ctx, source \in DOMAIN ctx :
      \E column_count \in 1..Len(ctx[source].fields) :
        DbStep(query(Db, InsertSelect(name, SelectFrom(source, column_count))).db)

NextSql ==
    \/ AddTable
    \/ RemoveTable
    \/ SeedColumn
    \/ AddAllTableContexts
    \/ QueryInsert
    \/ QueryUpdate
    \/ QueryDelete
    \/ QueryInsertSelect

SpecSql == Init /\ [][NextSql]_vars

\* --------------------------------------------- tables of every column type
\* rows handed to append_row: one cell per column, each of the column's type
TypedCells(t) ==
    {row \in [1..Len(t.columns) -> UNION {CellsOf(dt) : dt \in ColumnTypes}] :
        \A c \in 1..Len(t.columns) : row[c].dt = t.columns[c].dt}

\* add_column at the end of the schema, with a column of any type
AddTypedColumn ==
    \E dt \in ColumnTypes :
      \E data \in NullableData(dt) :
        /\ Len(table.fields) < Len(NamePool)
        /\ LET r == add_column(table, Len(table.fields),
                               NamePool[Len(table.fields) + 1], dt, data)
           IN /\ WithinBounds(r.table)
              /\ table' = r.table
              /\ UNCHANGED <<tables, ctx, call, cloned>>

AppendTypedRow ==
    \E row_data \in TypedCells(table) :
        LET r == append_row(table, row_data)
        IN /\ WithinBounds(r.table)
           /\ table' = r.table
           /\ UNCHANGED <<tables, ctx, call, cloned>>

NextTypes ==
    \/ AddTypedColumn
    \/ AppendTypedRow
    \/ DeleteRow

SpecTypes == Init /\ [][NextTypes]_vars

\* ------------------------------------------------- LIKE on a string value
\* texts and patterns of at most MaxChars characters: the letters a and b,
\* and in a pattern the wildcards
Strings(alphabet) == UNION {[1..k -> alphabet] : k \in 0..MaxChars}
Texts == Strings({97, 98})
Patterns == Strings({97, Percent, Underscore})

\* a table of one Utf8 column holding the text in its only row
TextTable(text) ==
    add_column(NewTable, 0, "name", "Utf8", ArrayFrom("Utf8", <<Some(text)>>)).table

LikeCall(text, pattern) ==
    [text |-> text, pattern |-> pattern, returned |-> FALSE, matches |-> FALSE,
     like |-> FALSE, not_like |-> FALSE]

InitLike ==
    /\ table = NewTable
    /\ tables = <<>>
    /\ ctx = <<>>
    /\ call \in {LikeCall(text, pattern) : text \in Texts, pattern \in Patterns}
    /\ cloned = NoClone

\* matches_like_pattern on the text, and the evaluation of `name LIKE pattern`
\* and `name NOT LIKE pattern` on the row holding it
MatchLike ==
    /\ ~call.returned
    /\ LET like == evaluate_where_condition(
                       TextTable(call.text),
                       Like("name", Utf8Scalar(call.pattern), FALSE), 0)
           not_like == evaluate_where_condition(
                           TextTable(call.text),
                           Like("name", Utf8Scalar(call.pattern), TRUE), 0)
       IN call' = [call EXCEPT
                      !.returned = like.ok /\ not_like.ok,
                      !.matches = matches_like_pattern(call.text, call.pattern),
                      !.like = like.result,
                      !.not_like = not_like.result]
    /\ UNCHANGED <<table, tables, ctx, cloned>>

NextLike == MatchLike

SpecLike == InitLike /\ [][NextLike]_vars

\* ------------------------------------------------- the logical plan walker
\* A logical plan node: its kind, the predicate of a Filter, and its inputs.
Plan(node, predicate, inputs) ==
    [node |-> node, predicate |-> predicate, inputs |-> inputs]
TableScan == Plan("TableScan", NoWhere, <<>>)

\* extract_where_condition without the descent through a Distinct
RECURSIVE extract_where_condition_stopping_at_distinct(_)
extract_where_condition_stopping_at_distinct(plan) ==
    IF plan.node = "Filter" THEN plan.predicate
    ELSE IF plan.node \in {"TableScan", "Distinct"} THEN NoWhere
    ELSE IF plan.node \in {"Projection", "Sort", "Limit", "Aggregate"}
    THEN extract_where_condition_stopping_at_distinct(plan.inputs[1])
    ELSE IF plan.node = "Join"
    THEN LET left == IF Len(plan.inputs) >= 1
                     THEN extract_where_condition_stopping_at_distinct(
                              plan.inputs[1])
                     ELSE NoWhere
         IN IF left # NoWhere THEN left
            ELSE IF Len(plan.inputs) >= 2
            THEN extract_where_condition_stopping_at_distinct(plan.inputs[2])
            ELSE NoWhere
    ELSE IF plan.inputs # <<>>
    THEN extract_where_condition_stopping_at_distinct(plan.inputs[1])
    ELSE NoWhere

\* Database::extract_where_condition; NoWhere stands for Ok(None)
RECURSIVE extract_where_condition(_)
extract_where_condition(plan) ==
    IF plan.node = "Filter" THEN plan.predicate
    ELSE IF plan.node = "TableScan" THEN NoWhere
    ELSE IF plan.node \in {"Projection", "Sort", "Limit", "Aggregate"}
    THEN extract_where_condition(plan.inputs[1])
    ELSE IF plan.node = "Join"
    THEN LET left == IF Len(plan.inputs) >= 1
                     THEN extract_where_condition(plan.inputs[1])
                     ELSE NoWhere
         IN IF left # NoWhere THEN left
            ELSE IF Len(plan.inputs) >= 2
            THEN extract_where_condition(plan.inputs[2])
            ELSE NoWhere
    ELSE IF plan.inputs # <<>> THEN extract_where_condition(plan.inputs[1])
    ELSE NoWhere

\* the predicates of the Filter nodes: id = 1 and name IS NULL
Predicates == {Comparison("id", "Eq", Int64Scalar(0, 1)), IsNull("name")}

\* the single-input nodes a planner puts around a Filter
Wrappers == {"Projection", "Sort", "Limit", "Aggregate", "Distinct"}

\* the plans of at most depth wrapper and Filter nodes above a TableScan
RECURSIVE Chains(_)
Chains(depth) ==
    IF depth = 0 THEN {TableScan}
    ELSE LET below == Chains(depth - 1)
         IN below
            \cup {Plan(n, NoWhere, <<c>>) : n \in Wrappers, c \in below}
            \cup {Plan("Filter", p, <<c>>) : p \in Predicates, c \in below}

\* the plans handed to the walker: the chains, the joins of two short chains
\* and a leaf that is not a TableScan
Plans ==
    Chains(MaxDepth)
    \cup {Plan("Join", NoWhere, <<l, r>>) : l \in Chains(1), r \in Chains(1)}
    \cup {Plan("Values", NoWhere, <<>>)}

PlanCall(plan) == [plan |-> plan, returned |-> FALSE, where |-> NoWhere]

InitPlan ==
    /\ table = NewTable
    /\ tables = <<>>
    /\ ctx = <<>>
    /\ call \in {PlanCall(plan) : plan \in Plans}
    /\ cloned = NoClone

ExtractWhere ==
    /\ ~call.returned
    /\ call' = [call EXCEPT !.returned = TRUE,
                            !.where = extract_where_condition(call.plan)]
    /\ UNCHANGED <<table, tables, ctx, cloned>>

NextPlan == ExtractWhere

SpecPlan == InitPlan /\ [][NextPlan]_vars

\* ------------------------------------------------------ the table registry
\* Table names as byte strings: "users" and "user role"
Users == <<117, 115, 101, 114, 115>>
UserRole == <<117, 115, 101, 114, 32, 114, 111, 108, 101>>
RegistryNames == {Users, UserRole}

\* char::is_whitespace on the bytes of a name: tab, line feed, vertical tab,
\* form feed, carriage return, space
Whitespace == {9, 10, 11, 12, 13, 32}
contains_whitespace(name) == \E k \in DOMAIN name : name[k] \in Whitespace

\* Database::get_table: a handle on the table of that name
get_table(db, name) ==
    IF name \in DOMAIN db.tables THEN Res("Ok", db.tables[name])
    ELSE Res("TableNotFound", NewTable)

\* Database::get_mut_table
get_mut_table(db, name) ==
    IF name \in DOMAIN db.tables THEN Res("Ok", db.tables[name])
    ELSE Res("TableNotFound", NewTable)

\* Clone for Database: DashMap::clone copies every entry into a new map, and
\* the context is a new SessionContext
clone(db) == [tables |-> db.tables, ctx |-> <<>>]

\* the bytes handed to load_table_bytes: a parquet file holding a batch, or
\* bytes that are no parquet file
ParquetOf(t) == [parquet |-> TRUE, batch |-> t]
NotParquet == [parquet |-> FALSE, batch |-> NewTable]

\* Table::import_parquet_from_bytes on a new table
import_parquet_from_bytes(t, bytes) ==
    IF ~bytes.parquet THEN Res("TableImportError", t)
    ELSE Res("Ok", bytes.batch)

\* Database::load_table_bytes
load_table_bytes(db, table_name, bytes) ==
    LET imported == import_parquet_from_bytes(NewTable, bytes)
    IN IF imported.outcome # "Ok" THEN DbRes(imported.outcome, db)
       ELSE add_table(db, table_name, imported.table)

\* the table the seeding and the files of this specification hold: one
\* Int32 column id with one row
IdTable == add_column(NewTable, 0, "id", "Int32",
                      ArrayFrom("Int32", <<Some(1)>>)).table
ParquetFiles == {ParquetOf(IdTable), ParquetOf(NewTable), NotParquet}

\* the database the clone was made from, and the clone
Cloned == [tables |-> cloned.tables, ctx |-> cloned.ctx]

\* a step of the clone to db
CloneStep(db) ==
    /\ cloned.made
    /\ cloned' = [made |-> TRUE, tables |-> db.tables, ctx |-> db.ctx]
    /\ UNCHANGED <<table, tables, ctx, call>>

RegistryAddTable ==
    \E name \in RegistryNames :
        DbStep(add_table(Db, name, NewTable).db)

RegistryRemoveTable ==
    \E name \in RegistryNames :
        DbStep(remove_table(Db, name).db)

\* get_mut_table(name) followed by add_column on the handle
RegistrySeedTable ==
    \E name \in RegistryNames :
        LET handle == get_mut_table(Db, name)
        IN /\ handle.outcome = "Ok"
           /\ handle.table = NewTable
           /\ DbStep([Db EXCEPT !.tables[name] =
                          add_column(handle.table, 0, "id", "Int32",
                                     ArrayFrom("Int32", <<Some(1)>>)).table])

RegistryLoadTableBytes ==
    \E name \in RegistryNames, bytes \in ParquetFiles :
        DbStep(load_table_bytes(Db, name, bytes).db)

RegistryAddTableContext ==
    \E name \in RegistryNames :
        DbStep(add_table_context(Db, name).db)

CloneDatabase ==
    /\ ~cloned.made
    /\ cloned' = [made |-> TRUE, tables |-> clone(Db).tables,
                  ctx |-> clone(Db).ctx]
    /\ UNCHANGED <<table, tables, ctx, call>>

CloneAddTable ==
    \E name \in RegistryNames :
        CloneStep(add_table(Cloned, name, NewTable).db)

CloneRemoveTable ==
    \E name \in RegistryNames :
        CloneStep(remove_table(Cloned, name).db)

CloneSeedTable ==
    \E name \in RegistryNames :
        LET handle == get_mut_table(Cloned, name)
        IN /\ handle.outcome = "Ok"
           /\ handle.table = NewTable
           /\ CloneStep([Cloned EXCEPT !.tables[name] =
                             add_column(handle.table, 0, "id", "Int32",
                                        ArrayFrom("Int32", <<Some(1)>>)).table])

CloneAddTableContext ==
    \E name \in RegistryNames :
        CloneStep(add_table_context(Cloned, name).db)

NextRegistry ==
    \/ RegistryAddTable
    \/ RegistryRemoveTable
    \/ RegistrySeedTable
    \/ RegistryLoadTableBytes
    \/ RegistryAddTableContext
    \/ CloneDatabase
    \/ CloneAddTable
    \/ CloneRemoveTable
    \/ CloneSeedTable
    \/ CloneAddTableContext

SpecRegistry == Init /\ [][NextRegistry]_vars

\* ------------------------------------------------------------ pagination
\* Option<usize>
SomeRows(n) == [some |-> TRUE, v |-> n]
NoRows == [some |-> FALSE, v |-> 0]

\* usize::div_ceil rounding down
div_floor(lhs, rhs) ==
    IF rhs = 0 THEN [ok |-> FALSE, v |-> 0]
    ELSE [ok |-> TRUE, v |-> lhs \div rhs]

\* usize::div_ceil: the quotient, one more when there is a remainder; a zero
\* divisor panics
div_ceil(lhs, rhs) ==
    IF rhs = 0 THEN [ok |-> FALSE, v |-> 0]
    ELSE [ok |-> TRUE,
          v |-> IF lhs % rhs > 0 THEN (lhs \div rhs) + 1 ELSE lhs \div rhs]

\* PaginationInfo::new; ok is FALSE when the call panics
PaginationInfo_new(page, page_size, rows_in_page, total_rows) ==
    LET pages == div_ceil(total_rows.v, page_size)
    IN [ok |-> total_rows.some => pages.ok,
        page |-> page,
        page_size |-> page_size,
        rows_in_page |-> rows_in_page,
        total_rows |-> total_rows,
        total_pages |-> IF total_rows.some THEN SomeRows(pages.v) ELSE NoRows,
        has_next_page |-> IF total_rows.some
                          THEN (page + 1) * page_size < total_rows.v
                          ELSE rows_in_page = page_size,
        has_previous_page |-> page > 0]

\* the calls of PaginationInfo::new: query_paginated passes the page and the
\* page size of its caller, the rows it collected for the page and, when
\* asked to count, the rows of the whole result
Pages == 0..MaxPage
Totals == {NoRows} \cup {SomeRows(n) : n \in 0..((MaxPage + 1) * MaxPage)}
PaginationCall(page, page_size, rows_in_page, total_rows) ==
    [returned |-> FALSE, page |-> page, page_size |-> page_size,
     rows_in_page |-> rows_in_page, total_rows |-> total_rows,
     info |-> PaginationInfo_new(0, 1, 0, NoRows)]

InitPage ==
    /\ table = NewTable
    /\ tables = <<>>
    /\ ctx = <<>>
    /\ cloned = NoClone
    /\ call \in {PaginationCall(page, page_size, rows_in_page, total_rows) :
                    page \in Pages, page_size \in Pages,
                    rows_in_page \in Pages, total_rows \in Totals}

NewPaginationInfo ==
    /\ ~call.returned
    /\ call' = [call EXCEPT
                   !.returned = TRUE,
                   !.info = PaginationInfo_new(call.page, call.page_size,
                                               call.rows_in_page,
                                               call.total_rows)]
    /\ UNCHANGED <<table, tables, ctx, cloned>>

NextPage == NewPaginationInfo

SpecPage == InitPage /\ [][NextPage]_vars

\* ------------------------------------------ two statements run concurrently
\* Two callers of Database::query on one database, each with a statement on
\* its own table.  call holds, for each caller, the statement and how far
\* its execution has come; the table collection and the engine context are
\* the ones both callers work on.
Procs == {1, 2}

\* the table each caller's statement names
TableFor == <<"users", "user_role">>

\* the tables at the start: two rows each
UsersTable == add_column(NewTable, 0, "id", "Int32",
                         ArrayFrom("Int32", <<Some(0), Some(1)>>)).table
UserRoleTable == add_column(NewTable, 0, "name", "Utf8",
                          ArrayFrom("Utf8", <<Some(<<97>>), None("Utf8")>>)).table
StartTables == [n \in {"users", "user_role"} |->
                   IF n = "users" THEN UsersTable ELSE UserRoleTable]

\* the execution of a statement: pc is the next step of Database::query,
\* held the handle the caller holds ("none", or the "shared" Ref of
\* get_table!, or the "exclusive" RefMut of get_mut_table!), schema / num_rows / row_idx / rows /
\* pending / k / count the locals of the executor, outcome the result once
\* pc is "done"
Execution(stmt) ==
    [stmt |-> stmt, pc |-> "plan", held |-> "none", schema |-> <<>>,
     num_rows |-> 0, row_idx |-> 0, rows |-> <<>>, pending |-> <<>>, k |-> 1,
     count |-> 0, outcome |-> "Running"]

\* a return of Database::query
finish(proc, outcome) == [proc EXCEPT !.pc = "done", !.outcome = outcome]

\* the row data of one row of INSERT ... VALUES, in schema order (the body
\* of the loop of execute_insert before the handle is taken)
build_row_data(schema, row_values) ==
    LET found == [c \in 1..Len(schema) |->
                     find_value(row_values, schema[c].name)]
        cells == [c \in 1..Len(schema) |->
                     IF found[c] = 0 THEN [ok |-> FALSE, array |-> NoData]
                     ELSE scalar_to_array_ref(row_values[found[c]].value)]
    IN [ok |-> \A c \in 1..Len(schema) : cells[c].ok,
        arrays |-> [c \in 1..Len(schema) |-> cells[c].array]]

\* the handle the next step of an execution takes: get_table! is a shared
\* handle, get_mut_table! an exclusive one
needs(proc) ==
    IF proc.pc \in {"num_rows", "schema", "where", "lookup", "register"}
    THEN "shared"
    ELSE IF proc.pc \in {"assign", "delete"} THEN "exclusive"
    ELSE IF proc.pc = "append"
    THEN IF build_row_data(proc.schema, Head(proc.pending)).ok THEN "exclusive"
         ELSE "none"
    ELSE "none"

\* the concurrent map locks a shard of keys at a time: a shared handle is
\* granted unless a key of the shard is held exclusively, an exclusive one
\* when no key of the shard is held
granted(procs, shard, p, mode) ==
    \A q \in Procs \ {p} :
        shard[q] = shard[p] =>
            \/ procs[q].held = "none"
            \/ mode = "shared" /\ procs[q].held = "shared"

\* a handle that is never dropped
keep_handle(proc) == proc

\* the handle is dropped at the end of the scope that took it
drop_handle(proc) == [proc EXCEPT !.held = "none"]

\* the start of the loops over the matching rows of execute_update and
\* execute_delete; with no row the executor returns and query registers
begin_mutation(proc, rows) ==
    [proc EXCEPT !.rows = rows, !.pending = rows, !.k = 1,
                 !.pc = IF rows = <<>> THEN "register"
                        ELSE IF proc.stmt.op = "Update" THEN "lookup"
                        ELSE "delete"]

\* the step of caller p to proc, leaving the database as db
ProcStep(p, proc, db) ==
    /\ call' = [call EXCEPT !.proc[p] = proc]
    /\ tables' = db.tables
    /\ ctx' = db.ctx
    /\ UNCHANGED <<table, cloned>>

\* the caller holds the handle its next step works under
Holding(p) == call.proc[p].held = needs(call.proc[p])

\* the statements a caller runs: an INSERT of two rows, a value and then a
\* NULL; an UPDATE of every row or of the rows equal to a literal; a DELETE
\* of every row or of the rows that differ from a literal
ConcurrentStatements(table_name, schema) ==
    {stmt \in DmlStatements(table_name, schema) :
        /\ stmt.op = "InsertInto" =>
               /\ Len(stmt.rows) = 2
               /\ \A k \in 1..2 : stmt.rows[k] # <<>>
               /\ stmt.rows[1][1].value.some
               /\ ~stmt.rows[2][1].value.some
        /\ stmt.op = "Update" =>
               /\ stmt.set_assignments # <<>>
               /\ \/ stmt.where_condition.kind = "None"
                  \/ stmt.where_condition.operator = "Eq"
        /\ stmt.op = "Delete" =>
               \/ stmt.where_condition.kind = "None"
               \/ stmt.where_condition.operator = "NotEq"}

InitConcurrent ==
    /\ table = NewTable
    /\ tables = StartTables
    /\ ctx = StartTables
    /\ cloned = NoClone
    /\ \E same_shard \in BOOLEAN :
       \E first \in ConcurrentStatements(TableFor[1], StartTables[TableFor[1]].fields),
          second \in ConcurrentStatements(TableFor[2], StartTables[TableFor[2]].fields) :
            call = [proc |-> <<Execution(first), Execution(second)>>,
                    shard |-> IF same_shard THEN <<0, 0>> ELSE <<0, 1>>,
                    start |-> [tables |-> StartTables, ctx |-> StartTables]]

\* DashMap::get / get_mut: the caller waits until the handle is granted
AcquireHandle(p) ==
    LET proc == call.proc[p]
    IN /\ proc.held = "none"
       /\ needs(proc) # "none"
       /\ granted(call.proc, call.shard, p, needs(proc))
       /\ ProcStep(p, [proc EXCEPT !.held = needs(proc)], Db)

\* self.ctx.sql(sql) and the start of the executor, up to its first handle
PlanStatement(p) ==
    LET proc == call.proc[p]
        stmt == proc.stmt
        kept == SelectSeq(stmt.rows, LAMBDA row : row # <<>>)
    IN /\ proc.pc = "plan"
       /\ ProcStep(p,
            IF stmt.table_name \notin DOMAIN ctx THEN finish(proc, "Query")
            ELSE IF stmt.op = "Update"
            THEN IF stmt.set_assignments = <<>> THEN finish(proc, "Query")
                 ELSE [proc EXCEPT !.pc = "num_rows"]
            ELSE IF stmt.op = "InsertInto"
            THEN IF kept = <<>> THEN finish(proc, "Query")
                 ELSE [proc EXCEPT !.pc = "schema", !.pending = kept]
            ELSE [proc EXCEPT !.pc = "num_rows"],
            Db)

\* let schema = { get_table!(..)?; table.record_batch.schema() } of
\* execute_insert
ReadSchema(p) ==
    LET proc == call.proc[p]
        name == proc.stmt.table_name
    IN /\ proc.pc = "schema"
       /\ Holding(p)
       /\ ProcStep(p,
            drop_handle(
              IF name \notin DOMAIN tables THEN finish(proc, "TableNotFound")
              ELSE [proc EXCEPT !.schema = tables[name].fields,
                                !.pc = "append"]),
            Db)

\* one pass of the loop over the rows of execute_insert
InsertRow(p) ==
    LET proc == call.proc[p]
        name == proc.stmt.table_name
        data == build_row_data(proc.schema, Head(proc.pending))
        r == append_row(tables[name], data.arrays)
    IN /\ proc.pc = "append"
       /\ Holding(p)
       /\ IF ~data.ok THEN ProcStep(p, finish(proc, "Query"), Db)
          ELSE IF r.outcome # "Ok"
          THEN ProcStep(p, drop_handle(finish(proc, r.outcome)), Db)
          ELSE ProcStep(p,
                 drop_handle(
                   [proc EXCEPT !.pending = Tail(proc.pending),
                                !.count = proc.count + 1,
                                !.pc = IF Tail(proc.pending) = <<>>
                                       THEN "register" ELSE "append"]),
                 [Db EXCEPT !.tables[name] = r.table])

\* let num_rows = { get_table!(..)?; table.record_batch.num_rows() } of
\* execute_update and execute_delete; without a WHERE clause every row
\* matches and the loop over the rows takes no handle
ReadNumRows(p) ==
    LET proc == call.proc[p]
        name == proc.stmt.table_name
        num_rows == tables[name].num_rows
    IN /\ proc.pc = "num_rows"
       /\ Holding(p)
       /\ ProcStep(p,
            drop_handle(
              IF name \notin DOMAIN tables THEN finish(proc, "TableNotFound")
              ELSE IF proc.stmt.where_condition.kind = "None"
              THEN begin_mutation([proc EXCEPT !.num_rows = num_rows],
                                  [k \in 1..num_rows |-> k - 1])
              ELSE IF num_rows = 0
              THEN begin_mutation([proc EXCEPT !.num_rows = num_rows], <<>>)
              ELSE [proc EXCEPT !.num_rows = num_rows, !.row_idx = 0,
                                !.pc = "where"]),
            Db)

\* evaluate_where_condition on one row: the comparison reads the row
\* under a shared handle
EvaluateWhere(p) ==
    LET proc == call.proc[p]
        name == proc.stmt.table_name
        should == evaluate_where_condition(tables[name],
                                           proc.stmt.where_condition,
                                           proc.row_idx)
        rows == IF should.result THEN Append(proc.rows, proc.row_idx)
                ELSE proc.rows
    IN /\ proc.pc = "where"
       /\ Holding(p)
       /\ ProcStep(p,
            drop_handle(
              IF ~should.ok THEN finish(proc, "Query")
              ELSE IF proc.row_idx + 1 >= proc.num_rows
              THEN begin_mutation(proc, rows)
              ELSE [proc EXCEPT !.rows = rows,
                                !.row_idx = proc.row_idx + 1]),
            Db)

\* the first block of apply_set_assignment: the column index, read under a
\* shared handle
LookUpColumn(p) ==
    LET proc == call.proc[p]
        name == proc.stmt.table_name
        assignment == proc.stmt.set_assignments[proc.k]
    IN /\ proc.pc = "lookup"
       /\ Holding(p)
       /\ ProcStep(p,
            drop_handle(
              IF name \notin DOMAIN tables THEN finish(proc, "TableNotFound")
              ELSE IF column_with_name(tables[name].fields,
                                       assignment.column) < 0
              THEN finish(proc, "Query")
              ELSE [proc EXCEPT !.pc = "assign"]),
            Db)

\* the rest of apply_set_assignment: the update of the column under an
\* exclusive handle, and the bookkeeping of the loops of execute_update
ApplySetAssignment(p) ==
    LET proc == call.proc[p]
        name == proc.stmt.table_name
        r == apply_set_assignment(tables[name], Head(proc.pending),
                                  proc.stmt.set_assignments[proc.k])
        last == proc.k = Len(proc.stmt.set_assignments)
        pending == IF last THEN Tail(proc.pending) ELSE proc.pending
    IN /\ proc.pc = "assign"
       /\ Holding(p)
       /\ ProcStep(p,
            drop_handle(
              IF r.outcome # "Ok" THEN finish(proc, r.outcome)
              ELSE [proc EXCEPT !.pending = pending,
                                !.k = IF last THEN 1 ELSE proc.k + 1,
                                !.count = IF last THEN proc.count + 1
                                          ELSE proc.count,
                                !.pc = IF pending = <<>> THEN "register"
                                       ELSE "lookup"]),
            [Db EXCEPT !.tables[name] = r.table])

\* delete_row_from_table on the last of the matching rows not yet deleted
DeleteMatchingRow(p) ==
    LET proc == call.proc[p]
        name == proc.stmt.table_name
        left == Len(proc.pending)
        r == delete_row_from_table(tables[name], proc.pending[left])
    IN /\ proc.pc = "delete"
       /\ Holding(p)
       /\ ProcStep(p,
            drop_handle(
              IF r.outcome # "Ok" THEN finish(proc, r.outcome)
              ELSE [proc EXCEPT !.pending = SubSeq(proc.pending, 1, left - 1),
                                !.count = proc.count + 1,
                                !.pc = IF left = 1 THEN "register"
                                       ELSE "delete"]),
            [Db EXCEPT !.tables[name] = r.table])

\* self.add_table_context(table_name)? and the return of Database::query
RegisterTable(p) ==
    LET proc == call.proc[p]
        r == add_table_context(Db, proc.stmt.table_name)
    IN /\ proc.pc = "register"
       /\ Holding(p)
       /\ ProcStep(p, drop_handle(finish(proc, r.outcome)), r.db)

\* the steps of one caller
Statement(p) ==
    \/ AcquireHandle(p)
    \/ PlanStatement(p)
    \/ ReadSchema(p)
    \/ InsertRow(p)
    \/ ReadNumRows(p)
    \/ EvaluateWhere(p)
    \/ LookUpColumn(p)
    \/ ApplySetAssignment(p)
    \/ DeleteMatchingRow(p)
    \/ RegisterTable(p)

NextConcurrent == \E p \in Procs : Statement(p)

SpecConcurrent == InitConcurrent /\ [][NextConcurrent]_vars

\* ------------------------------------------------------------- the claims
\* the column of a table at a 0-based index, and its logical content
Col(t, ci) == t.columns[ci + 1]
Content(t, ci) == Elements(Col(t, ci))
ValidColumns(t) == 0..(Len(t.columns) - 1)

\* The batch of a table holds all columns at one length, so an operation
\* that changes the length of one column can only succeed on a table of one
\* column; an update keeps the length.
OnlyColumn(t) == Len(t.columns) = 1

\* C1: after any sequence of table mutations, succeeded or failed, every
\* column of the batch has the same length, the row count of the batch.
EqualColumnLengths ==
    \A c \in 1..Len(table.columns) : table.columns[c].len = table.num_rows

\* C1 witness: a table of two columns with rows, on which a column operation
\* that would change one length is rejected
WitnessEqualColumnLengths ==
    /\ Len(table.columns) = 2
    /\ table.num_rows >= 1
    /\ \E a \in ColumnArgs(table) :
          insert_column_data(table, a[1], a[2], a[3]).outcome = "CreateRecordBatch"

\* C2: after a successful add_column(index, name, type, data) the new field
\* and the new data are both at position index, every column has the type of
\* its field, and the earlier columns keep their data, shifted by one behind
\* index.
AddColumnAtIndex ==
    Len(table.fields) < Len(NamePool) =>
    \A column_index \in 0..Len(table.fields), dt \in DataTypes :
      \A data \in NullableData(dt) :
        LET name == NamePool[Len(table.fields) + 1]
            r == add_column(table, column_index, name, dt, data)
        IN r.outcome = "Ok" =>
            /\ r.table.fields[column_index + 1] = Field(name, dt)
            /\ r.table.columns[column_index + 1] = data
            /\ \A p \in 1..Len(r.table.columns) :
                  r.table.columns[p].dt = r.table.fields[p].dt
            /\ \A p \in 1..Len(table.columns) :
                  r.table.columns[IF p > column_index THEN p + 1 ELSE p]
                    = table.columns[p]

\* C3: after every DML statement run through query on a table whose
\* registered snapshot was current, the statement returning Ok or an error,
\* the registered snapshot of the table equals the current batch of the table.
SnapshotFollowsDml ==
    \A name \in DOMAIN ctx \cap DOMAIN tables :
      ctx[name] = tables[name] =>
        \A stmt \in DmlStatements(name, ctx[name].fields) :
          LET r == query(Db, stmt)
          IN r.db.ctx[name] = r.db.tables[name]

\* the types the data model calls fixed-width, among the types of the model
FixedWidthTypes == {"Int32", "Boolean"}

\* C4: on a fixed-width column holding s, Append(d) gives s ++ d, Insert(i, d)
\* with i <= len(s) gives s[0..i) ++ d ++ s[i..], Update(i, [v]) with
\* i < len(s) replaces element i only, Delete(i) with i < len(s) removes
\* element i and keeps the order of the rest.
FixedWidthSplice ==
    \A ci \in ValidColumns(table) :
      Col(table, ci).dt \in FixedWidthTypes =>
        LET s == Content(table, ci)
        IN /\ \A d \in ValidData(Col(table, ci).dt) :
                /\ OnlyColumn(table) \/ d.len = 0 =>
                    LET r == append_column_data(table, ci, d)
                    IN r.outcome = "Ok" /\ Content(r.table, ci) = s \o Elements(d)
                /\ \A i \in 0..Len(s) :
                    OnlyColumn(table) \/ d.len = 0 =>
                      LET r == insert_column_data(table, ci, i, d)
                      IN /\ r.outcome = "Ok"
                         /\ Content(r.table, ci) = ListInsert(s, i, Elements(d))
                /\ \A i \in 0..(Len(s) - 1) :
                    d.len = 1 =>
                      LET r == update_column_data(table, ci, i, d)
                      IN /\ r.outcome = "Ok"
                         /\ Content(r.table, ci) = ListUpdate(s, i, Elements(d)[1])
           /\ \A i \in 0..(Len(s) - 1), overflow_checks \in BOOLEAN :
                OnlyColumn(table) =>
                  LET r == remove_column_data(table, ci, i, overflow_checks)
                  IN r.outcome = "Ok" /\ Content(r.table, ci) = ListRemove(s, i)

\* C5: insert with row_index > length, and update and delete with
\* row_index >= length, return ColumnIndexOutOfBounds and leave the table
\* unchanged.
RowIndexOutOfRangeRejected ==
    \A ci \in ValidColumns(table), ri \in RowIndexes :
      /\ \A d \in ValidData(Col(table, ci).dt) :
            /\ ri > Col(table, ci).len =>
                 insert_column_data(table, ci, ri, d)
                   = Res("ColumnIndexOutOfBounds", table)
            /\ ri >= Col(table, ci).len =>
                 update_column_data(table, ci, ri, d)
                   = Res("ColumnIndexOutOfBounds", table)
      /\ \A overflow_checks \in BOOLEAN :
            ri >= Col(table, ci).len =>
              remove_column_data(table, ci, ri, overflow_checks)
                = Res("ColumnIndexOutOfBounds", table)

\* C6: an update whose data does not hold exactly one element is rejected
\* with an error and leaves the column unchanged, for fixed-width and Utf8
\* columns alike.
UpdateRequiresOneElement ==
    \A ci \in ValidColumns(table), ri \in RowIndexes :
      \A d \in ValidData(Col(table, ci).dt) :
        d.len # 1 =>
          LET r == update_column_data(table, ci, ri, d)
          IN r.outcome # "Ok" /\ r.table = table

\* C7: on a non-empty Utf8 column each of Append, Insert, Update and Delete
\* succeeds and returns the element sequence a list splice would.
Utf8Splice ==
    \A ci \in ValidColumns(table) :
      Col(table, ci).dt = "Utf8" /\ Col(table, ci).len > 0 =>
        LET s == Content(table, ci)
        IN /\ \A d \in ValidData("Utf8") :
                /\ OnlyColumn(table) \/ d.len = 0 =>
                    LET r == append_column_data(table, ci, d)
                    IN r.outcome = "Ok" /\ Content(r.table, ci) = s \o Elements(d)
                /\ \A i \in 0..Len(s) :
                    OnlyColumn(table) \/ d.len = 0 =>
                      LET r == insert_column_data(table, ci, i, d)
                      IN /\ r.outcome = "Ok"
                         /\ Content(r.table, ci) = ListInsert(s, i, Elements(d))
                /\ \A i \in 0..(Len(s) - 1) :
                    d.len = 1 =>
                      LET r == update_column_data(table, ci, i, d)
                      IN /\ r.outcome = "Ok"
                         /\ Content(r.table, ci) = ListUpdate(s, i, Elements(d)[1])
           /\ \A i \in 0..(Len(s) - 1), overflow_checks \in BOOLEAN :
                OnlyColumn(table) =>
                  LET r == remove_column_data(table, ci, i, overflow_checks)
                  IN r.outcome = "Ok" /\ Content(r.table, ci) = ListRemove(s, i)

\* remove_column_data at the indexes hi, hi - 1, .., lo of a column
RECURSIVE RemoveDescending(_, _, _, _)
RemoveDescending(t, ci, hi, lo) ==
    IF hi < lo THEN t
    ELSE RemoveDescending(remove_column_data(t, ci, hi, TRUE).table, ci, hi - 1, lo)

\* C8: for every column type and non-empty data x, appending x and then
\* deleting the appended indexes in descending order gives a column equal to
\* the original: same length, same values, same null bits.
AppendThenDeleteRestores ==
    \A ci \in ValidColumns(table) :
      \A x \in ValidData(Col(table, ci).dt) :
        x.len > 0 =>
          LET n == Col(table, ci).len
              appended == append_column_data(table, ci, x).table
              final == RemoveDescending(appended, ci, n + x.len - 1, n)
          IN Content(final, ci) = Content(table, ci)

\* the array holding the elements of x followed by those of y
Joined(x, y) == ArrayFrom(x.dt, Elements(x) \o Elements(y))

\* C9: on a fixed-width column, append(x) then append(y) gives the column of
\* append(x ++ y), and for i <= length insert(i, x) then insert(i + len(x), y)
\* gives the column of insert(i, x ++ y).
AppendInsertCompose ==
    \A ci \in ValidColumns(table) :
      Col(table, ci).dt \in FixedWidthTypes =>
        \A x \in ValidData(Col(table, ci).dt), y \in ValidData(Col(table, ci).dt) :
          /\ Content(append_column_data(append_column_data(table, ci, x).table,
                                        ci, y).table, ci)
               = Content(append_column_data(table, ci, Joined(x, y)).table, ci)
          /\ \A i \in 0..Col(table, ci).len :
               Content(insert_column_data(
                           insert_column_data(table, ci, i, x).table,
                           ci, i + x.len, y).table, ci)
                 = Content(insert_column_data(table, ci, i, Joined(x, y)).table, ci)

\* a row with one single-element array per column, of the column's type
RowFits(t, row) ==
    /\ Len(row) = Len(t.columns)
    /\ \A c \in 1..Len(row) : row[c].len = 1 /\ row[c].dt = t.columns[c].dt

\* what append_row is to do with a row of the right length: keep the schema,
\* add one row, keep the rows before it and put the values in the last row
RowAppended(t, row, r) ==
    /\ r.outcome = "Ok"
    /\ r.table.fields = t.fields
    /\ r.table.num_rows = t.num_rows + 1
    /\ Len(r.table.columns) = Len(t.columns)
    /\ \A c \in 1..Len(t.columns) :
          Elements(r.table.columns[c]) = Elements(t.columns[c]) \o Elements(row[c])

\* C10 as claimed: append_row fails with CreateRecordBatch and leaves the
\* table unchanged when the number of values differs from the column count;
\* otherwise, given one single-element array per column, it appends the row.
AppendRowAppends ==
    \A row \in RowsFor(table) :
        LET r == append_row(table, row)
        IN IF Len(row) # Len(table.columns)
           THEN r = Res("CreateRecordBatch", table)
           ELSE RowFits(table, row) => RowAppended(table, row, r)

\* C10 as amended: the same, for a table that has at least one column; on
\* a table without columns the empty row is rejected with CreateRecordBatch.
AppendRowAppendsToColumns ==
    \A row \in RowsFor(table) :
        LET r == append_row(table, row)
        IN IF Len(row) # Len(table.columns) \/ Len(table.columns) = 0
           THEN r = Res("CreateRecordBatch", table)
           ELSE RowFits(table, row) => RowAppended(table, row, r)

\* C10 witness: a table of two columns with rows and a null, to which a
\* row of two cells is appended
WitnessAppendRow ==
    /\ Len(table.columns) = 2
    /\ table.num_rows >= 1
    /\ \E c \in 1..2 : table.columns[c].nulls # <<>>
    /\ \E row \in RowsFor(table) :
          RowFits(table, row) /\ Len(row) = 2 /\ append_row(table, row).outcome = "Ok"

\* the type tags the kernel and the evaluator support
SupportedTypeTags ==
    {"Int32", "Int64", "Float32", "Float64", "Boolean", "Date32", "Date64",
     "Utf8"}

\* the rows of r are those of t without the row at row_idx, in their order,
\* values and null bits kept, under the schema of t
RowDeleted(t, row_idx, r) ==
    /\ r.outcome = "Ok"
    /\ r.table.fields = t.fields
    /\ r.table.num_rows = t.num_rows - 1
    /\ Len(r.table.columns) = Len(t.columns)
    /\ \A ci \in ValidColumns(t) :
          Content(r.table, ci) = ListRemove(Content(t, ci), row_idx)

\* C11: delete_row with a row index below the row count succeeds on a table
\* whose columns have supported type tags and leaves every row but that one,
\* in order, with values, null bits and schema kept; a column of another
\* type makes it fail with Query.  The same holds for the DELETE executor's
\* delete_row_from_table.
DeleteRowRemovesRow ==
    \A row_idx \in 0..(table.num_rows - 1) :
        IF \A ci \in ValidColumns(table) : Col(table, ci).dt \in SupportedTypeTags
        THEN /\ RowDeleted(table, row_idx, delete_row(table, row_idx))
             /\ RowDeleted(table, row_idx, delete_row_from_table(table, row_idx))
        ELSE /\ delete_row(table, row_idx).outcome = "Query"
             /\ delete_row_from_table(table, row_idx).outcome = "Query"

\* the element a SET literal or a VALUES literal leaves in a column
LiteralElement(literal) ==
    Some(IF literal.type = "Utf8" THEN literal.str ELSE AsI32(literal))

\* row_idx is among the rows a statement matched
Matched(rows, row_idx) == \E j \in 1..Len(rows) : rows[j] = row_idx

\* C12: an UPDATE puts the SET values into the SET columns of exactly the
\* rows that matched WHERE before the statement (all rows without a WHERE),
\* leaves every other row, every other column and the row count as they
\* were, and returns the number of matched rows; without a SET assignment
\* it fails with Query and leaves the table as it was.
UpdateReplacesMatchingRows ==
    \A name \in DOMAIN tables :
      \A stmt \in UpdateStatements(name, tables[name].fields) :
        LET t == tables[name]
            r == execute_update(Db, name, stmt.set_assignments,
                                stmt.where_condition)
            matched == matching_rows(t, stmt.where_condition).rows
            assigned(ci) == find_value(stmt.set_assignments,
                                       t.fields[ci + 1].name)
            expected(ci) ==
                [k \in 1..t.num_rows |->
                    IF assigned(ci) # 0 /\ Matched(matched, k - 1)
                    THEN LiteralElement(stmt.set_assignments[assigned(ci)].value)
                    ELSE Content(t, ci)[k]]
        IN IF stmt.set_assignments = <<>>
           THEN r.outcome = "Query" /\ r.table = t
           ELSE /\ r.outcome = "Ok"
                /\ r.count = Len(matched)
                /\ r.table.fields = t.fields
                /\ r.table.num_rows = t.num_rows
                /\ \A ci \in ValidColumns(t) : Content(r.table, ci) = expected(ci)

\* the indexes of the rows of t a statement did not match, in ascending order
KeptRows(t, rows) ==
    LET F[k \in 0..t.num_rows] ==
            IF k = 0 THEN <<>>
            ELSE IF Matched(rows, k - 1) THEN F[k - 1]
            ELSE Append(F[k - 1], k - 1)
    IN F[t.num_rows]

InsertedElement(dt, literal) ==
    IF literal.some THEN LiteralElement(literal) ELSE None(dt)

\* C14: an INSERT ... VALUES of k rows appends the k rows at the end of the
\* table in their order, each value in the column of its name, and returns
\* k; when a row has no value for some column of the table the statement
\* fails with Query.
InsertAppendsRows ==
    \A name \in DOMAIN tables :
      \A stmt \in InsertStatements(name, tables[name].fields) :
        LET t == tables[name]
            rows == stmt.rows
            r == execute_insert(Db, name, rows)
            found(k, ci) == find_value(rows[k], t.fields[ci + 1].name)
            complete == \A k \in 1..Len(rows) : \A ci \in ValidColumns(t) :
                            found(k, ci) # 0
        IN Len(t.fields) > 0 =>
             IF complete
             THEN /\ r.outcome = "Ok"
                  /\ r.count = Len(rows)
                  /\ r.table.fields = t.fields
                  /\ \A ci \in ValidColumns(t) :
                        Content(r.table, ci) =
                            Content(t, ci) \o
                            [k \in 1..Len(rows) |->
                                InsertedElement(Col(t, ci).dt,
                                                rows[k][found(k, ci)].value)]
             ELSE r.outcome = "Query"

\* C15: INSERT INTO target SELECT ... FROM source appends one row to the
\* target per row of the source, in the order of the source, taking the
\* first source columns by position; the source is read before the first
\* append, also when it is the target; the count returned is the number of
\* source rows; a source of fewer columns than the target fails with Query.
InsertSelectAppendsRows ==
    \A name \in DOMAIN tables \cap DOMAIN ctx :
      \A column_count \in 1..Len(ctx[name].fields) :
        LET t == tables[name]
            source == ctx[name]
            r == execute_insert_from_select(Db, name,
                                            SelectFrom(name, column_count))
        IN IF column_count < Len(t.fields) THEN r.outcome = "Query"
           ELSE /\ r.outcome = "Ok"
                /\ r.count = source.num_rows
                /\ r.table.fields = t.fields
                /\ \A ci \in ValidColumns(t) :
                      Content(r.table, ci) = Content(t, ci) \o Content(source, ci)

\* the literals a predicate can hold against a column of a type: those of
\* the type of the column and, for an Int32 column, the Int64 literals of
\* the planner
TypedLiterals(dt) ==
    IF dt = "Int32"
    THEN {Int32Scalar(0), Int32Scalar(1), Int64Scalar(0, 1), Int64Scalar(1, 0)}
    ELSE IF dt = "Int64" THEN {Int64Scalar(0, 0), Int64Scalar(0, 1)}
    ELSE IF dt = "Float64" THEN {Float64Scalar(0), Float64Scalar(1)}
    ELSE IF dt = "Boolean" THEN {BooleanScalar(0), BooleanScalar(1)}
    ELSE {Utf8Scalar(<<>>), Utf8Scalar(<<97>>)}

\* lists of one or two literals
LiteralLists(dt) ==
    UNION {[1..k -> TypedLiterals(dt)] : k \in 1..2}

\* LIKE patterns: '', '%', '_' and 'a'
LikePatterns ==
    {Utf8Scalar(<<>>), Utf8Scalar(<<Percent>>), Utf8Scalar(<<Underscore>>),
     Utf8Scalar(<<97>>)}

\* the predicates on a column other than IS NULL and IS NOT NULL
ValuePredicates(field) ==
    {Comparison(field.name, op, l) :
        op \in ComparisonOperators, l \in TypedLiterals(field.dt)}
    \cup {InList(field.name, list, negated) :
            list \in LiteralLists(field.dt), negated \in BOOLEAN}
    \cup {Like(field.name, pattern, negated) :
            pattern \in LikePatterns, negated \in BOOLEAN}

\* C16: on a row whose value in a column is NULL the evaluator returns false
\* for every predicate on that column other than IS NULL and IS NOT NULL:
\* the six comparisons, IN, NOT IN, LIKE and NOT LIKE.
NullYieldsFalse ==
    \A ci \in ValidColumns(table) :
      \A row_idx \in 0..(table.num_rows - 1) :
        is_null(Col(table, ci), row_idx) =>
          \A condition \in ValuePredicates(table.fields[ci + 1]) :
            evaluate_where_condition(table, condition, row_idx) =
                [ok |-> TRUE, result |-> FALSE]

\* the supported types that are not floating point
NonFloatTypes == {"Int32", "Int64", "Boolean", "Date32", "Date64", "Utf8"}

\* the truth of x OP y for two values of one type
Truth(x, operator, y) ==
    IF operator = "Eq" THEN x = y
    ELSE IF operator = "NotEq" THEN x # y
    ELSE IF operator = "Lt" THEN ScalarLess(x, y)
    ELSE IF operator = "LtEq" THEN ScalarLess(x, y) \/ x = y
    ELSE IF operator = "Gt" THEN ScalarLess(y, x)
    ELSE ScalarLess(y, x) \/ x = y

\* C17: for a column of a supported non-float type, a row holding the
\* non-null value a and a literal v of the column's type (or an Int64 literal
\* against an Int32 column, a widened), the evaluator returns for
\* `column OP v` exactly the truth of a OP v, for each of the six operators;
\* a column name the schema does not hold gives a Query error.
ComparisonReturnsTruth ==
    /\ \A ci \in ValidColumns(table) :
         \A row_idx \in 0..(table.num_rows - 1) :
           (Col(table, ci).dt \in NonFloatTypes
               /\ ~is_null(Col(table, ci), row_idx)) =>
             \A op \in ComparisonOperators :
               \A v \in TypedLiterals(Col(table, ci).dt) :
                 check_column_comparison(table, table.fields[ci + 1].name,
                                         row_idx, v, op) =
                     [ok |-> TRUE,
                      result |-> Truth(ColumnScalar(v.type,
                                           value(Col(table, ci), row_idx)),
                                       op, v)]
    /\ \A row_idx \in 0..table.num_rows :
         \A op \in ComparisonOperators :
           ~check_column_comparison(table, "role", row_idx, Int32Scalar(1),
                                    op).ok

\* C18: `col IN L` is true on a row exactly when `col = e` is true on it for
\* some literal e of the list L, with the equality and the coercions of the
\* comparison path, and `col NOT IN L` is the negation of that.
InListIsSomeEqual ==
    \A ci \in ValidColumns(table) :
      \A row_idx \in 0..(table.num_rows - 1) :
        \A list \in LiteralLists(Col(table, ci).dt) :
          LET column_name == table.fields[ci + 1].name
              some_equal ==
                  \E k \in 1..Len(list) :
                      evaluate_where_condition(
                          table, Comparison(column_name, "Eq", list[k]),
                          row_idx).result
          IN /\ evaluate_where_condition(
                    table, InList(column_name, list, FALSE), row_idx) =
                    [ok |-> TRUE, result |-> some_equal]
             /\ evaluate_where_condition(
                    table, InList(column_name, list, TRUE), row_idx) =
                    [ok |-> TRUE, result |-> ~some_equal]

\* text splits along the pattern: cut[k] is the number of characters of the
\* text the first k pattern characters take; a '%' takes any number, a '_'
\* one, any other character one that is equal to it, and the whole pattern
\* takes the whole text
LikeSplit(text, pattern) ==
    \E cut \in [0..Len(pattern) -> 0..Len(text)] :
        /\ cut[0] = 0
        /\ cut[Len(pattern)] = Len(text)
        /\ \A k \in 1..Len(pattern) :
              IF pattern[k] = Percent THEN cut[k] >= cut[k - 1]
              ELSE /\ cut[k] = cut[k - 1] + 1
                   /\ pattern[k] = Underscore \/ text[cut[k]] = pattern[k]

\* C19: matches_like_pattern returns on every text and pattern, and returns
\* true exactly when the text splits along the pattern; LIKE on a row holding
\* the text is that result and NOT LIKE is its negation.
LikeMatchesSplit ==
    /\ "text" \in DOMAIN call /\ ~call.returned =>
          matches_like_pattern(call.text, call.pattern) \in BOOLEAN
    /\ "text" \in DOMAIN call /\ call.returned =>
          /\ call.matches = LikeSplit(call.text, call.pattern)
          /\ call.like = call.matches
          /\ call.not_like = ~call.matches

\* C19 witness: the text aba matched by %_a, where the '%' takes one
\* character, and the same text rejected by a_
WitnessLikeMatchesSplit ==
    /\ "text" \in DOMAIN call
    /\ call.returned
    /\ call.text = <<97, 98, 97>>
    /\ call.pattern = <<Percent, Underscore, 97>>
    /\ call.matches
    /\ call.like
    /\ ~call.not_like
    /\ ~matches_like_pattern(call.text, <<97, Underscore>>)

\* a plan is a chain of wrapper and Filter nodes above a TableScan
RECURSIVE IsChain(_)
IsChain(plan) ==
    \/ plan = TableScan
    \/ /\ plan.node \in Wrappers \cup {"Filter"}
       /\ Len(plan.inputs) = 1
       /\ IsChain(plan.inputs[1])

\* the predicates of the Filter nodes of a chain, topmost first
RECURSIVE Filters(_)
Filters(plan) ==
    IF plan.inputs = <<>> THEN <<>>
    ELSE IF plan.node = "Filter"
    THEN <<plan.predicate>> \o Filters(plan.inputs[1])
    ELSE Filters(plan.inputs[1])

\* C20: for a plan with a single Filter of predicate P among any number and
\* order of Projection, Sort, Limit, Aggregate and Distinct nodes above a
\* TableScan, extract_where_condition returns P; for such a plan without a
\* Filter it returns none.
ExtractReturnsFilterPredicate ==
    ("plan" \in DOMAIN call /\ call.returned /\ IsChain(call.plan)) =>
        /\ Len(Filters(call.plan)) = 1 => call.where = Filters(call.plan)[1]
        /\ Len(Filters(call.plan)) = 0 => call.where = NoWhere

\* C20 witness: the predicate returned from a Filter below a Distinct and an
\* Aggregate and above a Sort
WitnessExtractReturnsFilterPredicate ==
    /\ "plan" \in DOMAIN call
    /\ call.returned
    /\ call.plan.node = "Distinct"
    /\ call.plan.inputs[1].node = "Aggregate"
    /\ call.plan.inputs[1].inputs[1].node = "Filter"
    /\ call.plan.inputs[1].inputs[1].inputs[1].node = "TableScan"
    /\ call.where = call.plan.inputs[1].inputs[1].predicate
    /\ call.where = IsNull("name")

\* the tables a caller can hand to add_table
RegistryTables == {NewTable, IdTable}

\* C21: the table registry is a map keyed by table name.  add_table fails
\* with TableAlreadyExists exactly when the name is present, and then the
\* database is as it was; otherwise it stores the table under the name and
\* leaves the other names alone.  get_table, get_mut_table and remove_table
\* fail with TableNotFound exactly when the name is absent; a handle is on
\* the table stored; after a successful remove_table the name is in neither
\* the registry nor the engine, and the other names are as they were.
RegistryIsMap ==
    \A name \in RegistryNames :
      /\ \A t \in RegistryTables :
            LET r == add_table(Db, name, t)
            IN IF name \in DOMAIN tables
               THEN r.outcome = "TableAlreadyExists" /\ r.db = Db
               ELSE /\ r.outcome = "Ok"
                    /\ DOMAIN r.db.tables = DOMAIN tables \cup {name}
                    /\ r.db.tables[name] = t
                    /\ \A n \in DOMAIN tables : r.db.tables[n] = tables[n]
                    /\ r.db.ctx = ctx
      /\ get_table(Db, name).outcome =
            (IF name \in DOMAIN tables THEN "Ok" ELSE "TableNotFound")
      /\ get_mut_table(Db, name).outcome =
            (IF name \in DOMAIN tables THEN "Ok" ELSE "TableNotFound")
      /\ name \in DOMAIN tables =>
            /\ get_table(Db, name).table = tables[name]
            /\ get_mut_table(Db, name).table = tables[name]
      /\ LET r == remove_table(Db, name)
         IN IF name \notin DOMAIN tables
            THEN r.outcome = "TableNotFound" /\ r.db.tables = tables
            ELSE /\ r.outcome = "Ok"
                 /\ name \notin DOMAIN r.db.tables
                 /\ name \notin DOMAIN r.db.ctx
                 /\ DOMAIN r.db.tables = DOMAIN tables \ {name}
                 /\ \A n \in DOMAIN r.db.tables : r.db.tables[n] = tables[n]
                 /\ \A n \in DOMAIN ctx \ {name} :
                       n \in DOMAIN r.db.ctx /\ r.db.ctx[n] = ctx[n]

\* C21 witness: one name is stored with a column and registered with the
\* engine, so that add_table on it fails and remove_table takes it out of
\* both, while the other name is absent, so that add_table stores it and the
\* handles and remove_table fail
WitnessRegistryIsMap ==
    /\ Users \in DOMAIN tables
    /\ Users \in DOMAIN ctx
    /\ tables[Users] = IdTable
    /\ UserRole \notin DOMAIN tables
    /\ add_table(Db, Users, NewTable).outcome = "TableAlreadyExists"
    /\ remove_table(Db, Users).outcome = "Ok"
    /\ add_table(Db, UserRole, NewTable).outcome = "Ok"
    /\ get_table(Db, UserRole).outcome = "TableNotFound"
    /\ remove_table(Db, UserRole).outcome = "TableNotFound"

\* C22: add_table_context on a table of the registry succeeds however many
\* times in a row it is called, and after each call the engine holds under
\* the name the table's batch as it is now, the other registrations and the
\* registry being as they were; on a name the registry lacks it fails with
\* TableNotFound and changes nothing.
AddTableContextIdempotent ==
    \A name \in RegistryNames :
        LET once == add_table_context(Db, name)
            twice == add_table_context(once.db, name)
            thrice == add_table_context(twice.db, name)
        IN IF name \in DOMAIN tables
           THEN /\ once.outcome = "Ok"
                /\ twice.outcome = "Ok"
                /\ thrice.outcome = "Ok"
                /\ once.db.tables = tables
                /\ DOMAIN once.db.ctx = DOMAIN ctx \cup {name}
                /\ once.db.ctx[name] = tables[name]
                /\ \A n \in DOMAIN ctx \ {name} : once.db.ctx[n] = ctx[n]
                /\ twice.db = once.db
                /\ thrice.db = once.db
           ELSE once.outcome = "TableNotFound" /\ once.db = Db

\* C22 witness: the engine holds an older batch of a table that has gained a
\* column since, so that the call replaces a registration, and the other
\* name is unknown
WitnessAddTableContextIdempotent ==
    /\ Users \in DOMAIN tables
    /\ Users \in DOMAIN ctx
    /\ ctx[Users] = NewTable
    /\ tables[Users] = IdTable
    /\ add_table_context(Db, Users).db.ctx[Users] = IdTable
    /\ UserRole \notin DOMAIN tables
    /\ add_table_context(Db, UserRole).outcome = "TableNotFound"

\* C23: the clone of a database has an engine context of its own and shares
\* the table collection with the database it was made from: once the clone
\* is made, both databases hold the same tables under the same names
\* whichever of the two a table was added to, removed from or mutated through.
CloneSharesTables ==
    cloned.made => cloned.tables = tables

\* the least number of pages of page_size rows that hold total rows
CeilDiv(total, page_size) ==
    CHOOSE n \in 0..total :
        /\ n * page_size >= total
        /\ \A m \in 0..(n - 1) : m * page_size < total

\* C24: the value PaginationInfo::new returns has has_previous_page = (page >
\* 0); when total_rows is known, total_pages is ceil(total_rows / page_size)
\* and has_next_page is (page + 1) * page_size < total_rows; when it is not
\* known, total_pages is unknown and has_next_page is (rows_in_page =
\* page_size); the four arguments are kept as they were given.
PaginationInfoFields ==
    ("info" \in DOMAIN call /\ call.returned /\ call.info.ok) =>
        LET info == call.info
        IN /\ info.page = call.page
           /\ info.page_size = call.page_size
           /\ info.rows_in_page = call.rows_in_page
           /\ info.total_rows = call.total_rows
           /\ info.has_previous_page = (call.page > 0)
           /\ IF call.total_rows.some
              THEN /\ info.total_pages =
                        SomeRows(CeilDiv(call.total_rows.v, call.page_size))
                   /\ info.has_next_page =
                        ((call.page + 1) * call.page_size < call.total_rows.v)
              ELSE /\ info.total_pages = NoRows
                   /\ info.has_next_page =
                        (call.rows_in_page = call.page_size)

\* C24 witness: the third page of 3 rows of a result of 7 rows, which is the
\* last one and holds one row
WitnessPaginationInfoFields ==
    /\ "info" \in DOMAIN call
    /\ call.returned
    /\ call.info.ok
    /\ call.page = 2
    /\ call.page_size = 3
    /\ call.total_rows = SomeRows(7)
    /\ call.info.total_pages = SomeRows(3)
    /\ ~call.info.has_next_page
    /\ call.info.has_previous_page

\* C25: whenever total_rows is known, PaginationInfo::new returns a value,
\* and in it page_size * total_pages >= total_rows >= page_size *
\* (total_pages - 1).
PaginationBounds ==
    ("info" \in DOMAIN call /\ call.returned /\ call.total_rows.some) =>
        /\ call.info.ok
        /\ call.page_size * call.info.total_pages.v >= call.total_rows.v
        /\ call.total_rows.v >= call.page_size * (call.info.total_pages.v - 1)

\* C26: no table of the registry has a name that contains whitespace.
NoWhitespaceInTableNames ==
    \A name \in DOMAIN tables : ~contains_whitespace(name)

\* the first position of a sequence of outcomes that is not Ok, 0 for none
FirstError(outcomes) ==
    LET I == {k \in 1..Len(outcomes) : outcomes[k] # "Ok"}
    IN IF I = {} THEN 0 ELSE CHOOSE k \in I : \A j \in I : k <= j

\* C27 for INSERT: when the statement fails, it fails with the error of the
\* first of its rows that cannot be inserted, the rows before that one are
\* at the end of the table and nothing else has changed.
InsertFailsAtFirstError ==
    \A name \in DOMAIN tables :
      \A stmt \in InsertStatements(name, tables[name].fields) :
        LET t == tables[name]
            kept == SelectSeq(stmt.rows, LAMBDA row : row # <<>>)
            r == execute_insert(Db, name, stmt.rows)
            alone == [k \in 1..Len(kept) |->
                         execute_insert(Db, name, <<kept[k]>>).outcome]
            first == FirstError(alone)
            found(k, ci) == find_value(kept[k], t.fields[ci + 1].name)
        IN (r.outcome # "Ok" /\ kept # <<>>) =>
              /\ first # 0
              /\ r.outcome = alone[first]
              /\ r.count = first - 1
              /\ r.table.fields = t.fields
              /\ \A ci \in ValidColumns(t) :
                    Content(r.table, ci) =
                        Content(t, ci) \o
                        [k \in 1..(first - 1) |->
                            InsertedElement(Col(t, ci).dt,
                                            kept[k][found(k, ci)].value)]

\* C27 for UPDATE: when the statement fails, the count is the number of
\* matched rows it went through before the one it failed on, those rows hold
\* the SET values, the error is the first one met on the row it failed on,
\* and every row other than those (the rows after it among them) is as it
\* was.
UpdateFailsAtFirstError ==
    \A name \in DOMAIN tables :
      \A stmt \in UpdateStatements(name, tables[name].fields) :
        LET t == tables[name]
            set == stmt.set_assignments
            r == execute_update(Db, name, set, stmt.where_condition)
            matched == matching_rows(t, stmt.where_condition).rows
            assigned(ci) == find_value(set, t.fields[ci + 1].name)
            alone(row_idx) ==
                [j \in 1..Len(set) |->
                    apply_set_assignment(t, row_idx, set[j]).outcome]
        IN (r.outcome # "Ok" /\ set # <<>>) =>
              /\ r.count < Len(matched)
              /\ FirstError(alone(matched[r.count + 1])) # 0
              /\ r.outcome = alone(matched[r.count + 1])
                                [FirstError(alone(matched[r.count + 1]))]
              /\ r.table.fields = t.fields
              /\ r.table.num_rows = t.num_rows
              /\ \A ci \in ValidColumns(t) : \A k \in 1..t.num_rows :
                    IF \E j \in 1..r.count : matched[j] = k - 1
                    THEN assigned(ci) # 0 =>
                            Content(r.table, ci)[k] =
                                LiteralElement(set[assigned(ci)].value)
                    ELSE k - 1 # matched[r.count + 1] =>
                            Content(r.table, ci)[k] = Content(t, ci)[k]

\* C27 for DELETE: when the statement fails, the count is the number of
\* matched rows it deleted before the one it failed on, and the table is the
\* table without those rows.
DeleteFailsAtFirstError ==
    \A name \in DOMAIN tables :
      \A stmt \in DeleteStatements(name, tables[name].fields) :
        LET t == tables[name]
            r == execute_delete(Db, name, stmt.where_condition)
            matched == matching_rows(t, stmt.where_condition).rows
            deleted == SubSeq(matched, Len(matched) - r.count + 1, Len(matched))
            kept == KeptRows(t, deleted)
        IN r.outcome # "Ok" =>
              /\ r.count < Len(matched)
              /\ r.table.fields = t.fields
              /\ \A ci \in ValidColumns(t) :
                    Content(r.table, ci) =
                        [j \in 1..Len(kept) |-> Content(t, ci)[kept[j] + 1]]

\* C27: a multi-row INSERT, UPDATE or DELETE that fails at a row returns the
\* first error met, keeps what it did to the rows before that row and has
\* touched no row after it.
FailureKeepsEarlierRowsOnly ==
    /\ InsertFailsAtFirstError
    /\ UpdateFailsAtFirstError
    /\ DeleteFailsAtFirstError

\* an operation that did not succeed has left the table as it was
Unchanged(r) == r.outcome # "Ok" => r.table = table

\* C29: each kernel operation is all or nothing: add_column, append, insert,
\* update and remove of column data, replace_column_data, append_row and
\* delete_row, when they do not succeed, leave the schema, the columns and
\* the row count of the table exactly as they were before the call.
KernelAllOrNothing ==
    /\ \A column_index \in 0..(Len(table.fields) + 1), dt \in DataTypes :
         \A data \in NullableData(dt), data_type \in {dt, OtherType(dt)} :
            Unchanged(add_column(table, column_index, "name", data_type, data))
    /\ \A a \in ColumnArgs(table) :
          /\ Unchanged(append_column_data(table, a[1], a[3]))
          /\ Unchanged(insert_column_data(table, a[1], a[2], a[3]))
          /\ Unchanged(update_column_data(table, a[1], a[2], a[3]))
          /\ Unchanged(replace_column_data(table, a[1], a[3]))
    /\ \A column_index \in 0..Len(table.columns), row_index \in RowIndexes,
          overflow_checks \in BOOLEAN :
          Unchanged(remove_column_data(table, column_index, row_index,
                                       overflow_checks))
    /\ \A row_data \in RowsFor(table) : Unchanged(append_row(table, row_data))
    /\ \A row_idx \in RowIndexes : Unchanged(delete_row(table, row_idx))

\* C29 witness: a table of two columns with a row, on which an append to one
\* column, a replacement by a longer column, a row one cell short and a
\* delete past the last row all fail, each with its own error
WitnessKernelAllOrNothing ==
    /\ Len(table.columns) = 2
    /\ table.num_rows = 1
    /\ Col(table, 0).dt = "Int32"
    /\ append_column_data(table, 0, ArrayFrom("Int32", <<Some(1)>>)).outcome
          = "CreateRecordBatch"
    /\ replace_column_data(table, 0, ArrayFrom("Int32", <<Some(1), Some(1)>>)).outcome
          = "CreateRecordBatch"
    /\ add_column(table, 3, "name", "Int32", ArrayFrom("Int32", <<Some(1)>>)).outcome
          = "ColumnIndexOutOfBounds"
    /\ append_row(table, <<ArrayFrom("Int32", <<Some(1)>>)>>).outcome
          = "CreateRecordBatch"
    /\ delete_row(table, 1).outcome = "Query"

\* the null status of the elements of a column, first to last
NullStatus(t, ci) == [k \in 1..Col(t, ci).len |-> Content(t, ci)[k].null]

\* C30: a successful column operation at row_index leaves the null status of
\* every other element as it was: after an update every element but the one
\* at row_index has its status; after an insert or an append the elements
\* before row_index have theirs and those from row_index on have theirs
\* behind the new elements; after a remove the elements past row_index have
\* theirs one position down.
OtherNullsKept ==
    \A ci \in ValidColumns(table), ri \in RowIndexes :
     \A data \in NullableData(Col(table, ci).dt) :
      LET before == NullStatus(table, ci)
          updated == update_column_data(table, ci, ri, data)
          inserted == insert_column_data(table, ci, ri, data)
          appended == append_column_data(table, ci, data)
          removed == remove_column_data(table, ci, ri, TRUE)
      IN /\ updated.outcome = "Ok" =>
              \A k \in 1..Len(before) :
                  k - 1 # ri => NullStatus(updated.table, ci)[k] = before[k]
         /\ inserted.outcome = "Ok" =>
              \A k \in 1..Len(before) :
                  NullStatus(inserted.table, ci)
                      [IF k - 1 < ri THEN k ELSE k + data.len] = before[k]
         /\ appended.outcome = "Ok" =>
              \A k \in 1..Len(before) :
                  NullStatus(appended.table, ci)[k] = before[k]
         /\ removed.outcome = "Ok" =>
              \A k \in 1..Len(before) :
                  k - 1 # ri =>
                      NullStatus(removed.table, ci)
                          [IF k - 1 < ri THEN k ELSE k - 1] = before[k]

\* a caller has returned from Database::query
Returned(p) == call.proc[p].pc = "done"

\* the caller's statement run alone on the database as it was at the start
Alone(p) == query(call.start, call.proc[p].stmt)

\* once a caller has returned, its result, its table and its table's
\* registration are those of its statement run alone
AsIfAlone(p) ==
    LET name == call.proc[p].stmt.table_name
    IN Returned(p) =>
          /\ call.proc[p].outcome = Alone(p).outcome
          /\ tables[name] = Alone(p).db.tables[name]
          /\ ctx[name] = Alone(p).db.ctx[name]

\* a caller waits for a handle: the shard of its table is held in a way
\* that excludes the handle its next step takes
Blocked(p) ==
    /\ call.proc[p].held = "none"
    /\ needs(call.proc[p]) # "none"
    /\ ~granted(call.proc, call.shard, p, needs(call.proc[p]))

\* another caller holds a handle in the shard and is at the step that works
\* under that handle
HolderRuns(p) ==
    \E q \in Procs \ {p} :
        /\ call.shard[q] = call.shard[p]
        /\ call.proc[q].held # "none"
        /\ ~Returned(q)
        /\ Holding(q)

\* a caller that holds a handle drops it with its next step
HandleDropped(p) ==
    (call.proc[p].held # "none" /\ call'.proc[p] # call.proc[p])
        => call'.proc[p].held = "none"

\* a step of one caller leaves the other caller's execution, table and
\* registration as they are
OthersUntouched(p) ==
    call'.proc[p] # call.proc[p] =>
        \A q \in Procs \ {p} :
            /\ call'.proc[q] = call.proc[q]
            /\ tables'[TableFor[q]] = tables[TableFor[q]]
            /\ ctx'[TableFor[q]] = ctx[TableFor[q]]

\* C28: when two DML statements on different tables run concurrently, under
\* every interleaving of their steps each statement leaves its table (and
\* returns the result) as it does when run alone, no step of one touches
\* the table of the other, and neither waits forever for a handle the other
\* holds: whenever one waits, the other holds the handle at a step it can
\* take, and that step drops the handle.
ConcurrentDmlIsolated ==
    /\ [](\A p \in Procs : AsIfAlone(p) /\ (Blocked(p) => HolderRuns(p)))
    /\ [][\A p \in Procs : HandleDropped(p) /\ OthersUntouched(p)]_vars

\* The first caller holds the exclusive handle of its table after it has
\* changed a row, while the second, which has changed a row of its own
\* table, waits for a handle in the same shard.
WitnessConcurrentDml ==
    /\ call.shard[1] = call.shard[2]
    /\ call.proc[1].held = "exclusive"
    /\ call.proc[1].count > 0
    /\ call.proc[2].count > 0
    /\ call.proc[2].held = "none"
    /\ needs(call.proc[2]) = "exclusive"
    /\ tables[TableFor[1]] # call.start.tables[TableFor[1]]
    /\ tables[TableFor[2]] # call.start.tables[TableFor[2]]

====
